---- MODULE Spec2Model ----
(***************************************************************************)
(* Kindle highlight sync of the Lektr browser extension.                   *)
(*                                                                         *)
(* The background script's orchestrator syncKindleLibrary, the three       *)
(* acquisition strategies it chains (syncViaContentScript + syncAllBooks,  *)
(* KindleScraper.scrapeAllBooksViaFetch, KindleScraper.scrapeHighlights),  *)
(* submitHighlightsToLektr, and the triggers (popup, website bridge,       *)
(* alarm) are modelled as one state machine.  An await of the source is a   *)
(* step boundary; the per-book request loops of scrapeAllBooksViaFetch and *)
(* of submitHighlightsToLektr, which read and write nothing but their own  *)
(* locals, are taken in one step each.  The answers of the network, of the *)
(* Kindle page and of the Lektr API are chosen nondeterministically from   *)
(* small sets.                                                             *)
(***************************************************************************)
EXTENDS Integers, Sequences, FiniteSets, TLC

\* ---------------------------------------------------------------- bounds
MaxBooks == 2     \* books the source's library list can enumerate
MaxHl == 1        \* highlights one book page can render

\* One invocation of syncKindleLibrary per trigger surface: SYNC_NOW calls
\* syncKindleLibrary(true), the alarm calls syncKindleLibrary(false).  The
\* two may be in progress together.
Runs == {"manual", "scheduled"}

\* Strategy names (spec section 2, item 4).
LiveDom == "Live-DOM"
PerAsin == "Per-ASIN fetch"
Legacy == "Single-page legacy"
Strategies == {LiveDom, PerAsin, Legacy}

VARIABLES
  run,          \* run[r]: locals of invocation r of syncKindleLibrary
  isSyncing,    \* browser.storage.local 'isSyncing'
  lastSyncTime, \* number of writes of browser.storage.local 'lastSyncTime'
  cancelSync,   \* module variable cancelSync of the Kindle content script
  tabOpen,      \* a tab matching *://read.amazon.*/notebook* exists
  stopPending,  \* a STOP_SYNC message sent by the popup, not yet handled
  call          \* locals of the call of a function of the Kindle page

\* The state of a function of the Kindle page studied on its own.
pageVars == <<call>>

\* The state of the background script, the popup and the sync in the tab.
syncVars == <<run, isSyncing, lastSyncTime, cancelSync, tabOpen, stopPending>>

vars == <<run, isSyncing, lastSyncTime, cancelSync, tabOpen, stopPending,
          call>>

\* ---------------------------------------------------------------- data
\* KindleBook, reduced to its identifier (position in the library list,
\* 0 for the empty asin '') and the number of its highlights.
Book(a, h) == [asin |-> a, hl |-> h]

RECURSIVE SumHl(_)
\* books.reduce((sum, b) => sum + b.highlights.length, 0)
SumHl(books) ==
  IF books = <<>> THEN 0 ELSE Head(books).hl + SumHl(Tail(books))

NoResult == [returned |-> FALSE, success |-> FALSE, booksProcessed |-> 0,
             highlightsImported |-> 0, error |-> "none"]

SyncResult(s, b, h, e) ==
  [returned |-> TRUE, success |-> s, booksProcessed |-> b,
   highlightsImported |-> h, error |-> e]

\* syncViaContentScript's return value; present = FALSE stands for null.
NullResult == [present |-> FALSE, books |-> <<>>, cancelled |-> FALSE]

InitRun ==
  [pc |-> "idle",
   useContentScript |-> FALSE,
   books |-> <<>>,            \* let books (line 809)
   wasCancelled |-> FALSE,    \* let wasCancelled (line 810)
   contentScriptResult |-> NullResult,
   error |-> "none",          \* message of the error caught at line 932
   bookList |-> 0,            \* length of syncAllBooks' bookList
   i |-> 0,                   \* loop index of syncAllBooks (from 1)
   allBooks |-> <<>>,         \* allBooks of syncAllBooks
   booksProcessed |-> 0,
   highlightsImported |-> 0,
   result |-> NoResult,
   \* history of the run, read only by the properties
   started |-> <<>>,          \* strategies started, in order
   finished |-> {},           \* strategies that returned or threw
   gave |-> {},               \* strategies that returned at least one book
   threw |-> {},              \* <<strategy, error>> of strategies that threw
   cancelled |-> FALSE,       \* Live-DOM returned cancelled = true
   checked |-> {},            \* <<strategy, answer>> of login checks made
   scraped |-> {},            \* strategies that enumerated/selected/fetched
   ops |-> {},                \* tab operations and messages issued
   setTrue |-> 0,             \* writes isSyncing = true
   clears |-> 0,              \* writes isSyncing = false
   notes |-> <<>>,            \* notifications created
   submits |-> 0,             \* calls of submitHighlightsToLektr
   posted |-> FALSE]          \* a POST to /api/v1/import/kindle was made

\* No function of the Kindle page is studied on its own.
NoCall == [pc |-> "none"]

InitSync ==
  /\ run = [r \in Runs |-> InitRun]
  /\ isSyncing = FALSE
  /\ lastSyncTime = 0
  /\ cancelSync = FALSE
  /\ tabOpen \in BOOLEAN
  /\ stopPending = FALSE

Init ==
  /\ InitSync
  /\ call = NoCall

Set(r, rec) == run' = [run EXCEPT ![r] = rec]

\* syncKindleLibrary is left at program point pc: its locals go out of scope.
Leave(rec, pc) ==
  [rec EXCEPT !.pc = pc,
              !.books = <<>>, !.wasCancelled = FALSE, !.error = "none",
              !.i = 0, !.booksProcessed = 0, !.highlightsImported = 0]

\* syncKindleLibrary returns res.
Return(rec, res) == [Leave(rec, "done") EXCEPT !.result = res]

Active(r) == run[r].pc \notin {"idle", "done", "rejected"}

\* Strategy s has returned n books (e = "none") or has thrown e; its
\* locals go out of scope.
Finish(rec, s, n, e) ==
  [rec EXCEPT !.finished = @ \cup {s},
              !.gave = IF n > 0 THEN @ \cup {s} ELSE @,
              !.threw = IF e # "none" THEN @ \cup {<<s, e>>} ELSE @,
              !.bookList = 0, !.i = 0, !.allBooks = <<>>,
              !.contentScriptResult = NullResult]


\* ------------------------------------------------------------- triggers
\* syncKindleLibrary(useContentScript) is entered; nothing guards the call.
StartRun(r, ucs) ==
  /\ run[r].pc = "idle"
  /\ ucs = (r = "manual")
  /\ Set(r, [run[r] EXCEPT !.pc = "entry", !.useContentScript = ucs])

\* Popup button while its isSyncing state is false: sends SYNC_NOW.
PopupSyncNow(r) ==
  /\ ~isSyncing
  /\ StartRun(r, TRUE)
  /\ UNCHANGED pageVars
  /\ UNCHANGED <<isSyncing, lastSyncTime, cancelSync, tabOpen, stopPending>>

\* Website event 'lektr-trigger-sync': the bridge sends SYNC_NOW.
BridgeSyncNow(r) ==
  /\ StartRun(r, TRUE)
  /\ UNCHANGED pageVars
  /\ UNCHANGED <<isSyncing, lastSyncTime, cancelSync, tabOpen, stopPending>>

\* The 'kindleSync' alarm fires.
OnAlarm(r) ==
  /\ StartRun(r, FALSE)
  /\ UNCHANGED pageVars
  /\ UNCHANGED <<isSyncing, lastSyncTime, cancelSync, tabOpen, stopPending>>

\* Popup button while its isSyncing state is true: sends STOP_SYNC and
\* writes isSyncing = false itself.
PopupStop ==
  /\ isSyncing
  /\ isSyncing' = FALSE
  /\ stopPending' = TRUE
  /\ UNCHANGED pageVars
  /\ UNCHANGED <<run, lastSyncTime, cancelSync, tabOpen>>

\* Background forwards STOP_SYNC to the Kindle tabs; the content script of
\* an open tab sets cancelSync.
ForwardStop ==
  /\ stopPending
  /\ stopPending' = FALSE
  /\ cancelSync' = IF tabOpen THEN TRUE ELSE cancelSync
  /\ UNCHANGED pageVars
  /\ UNCHANGED <<run, isSyncing, lastSyncTime, tabOpen>>

\* ---------------------------------------------------- syncKindleLibrary
\* Line 806: await browser.storage.local.set({ isSyncing: true, ... }).
Entry(r) ==
  /\ run[r].pc = "entry"
  /\ isSyncing' = TRUE
  /\ Set(r, [run[r] EXCEPT
        !.pc = IF run[r].useContentScript THEN "cs_query" ELSE "fetch_login",
        !.started = Append(@, IF run[r].useContentScript
                               THEN LiveDom ELSE PerAsin),
        !.setTrue = @ + 1])
  /\ UNCHANGED pageVars
  /\ UNCHANGED <<lastSyncTime, cancelSync, tabOpen, stopPending>>

\* ------------------------------------------------- syncViaContentScript
\* Lines 715-720, 750-753: query the Kindle notebook tabs.
CsQueryTabs(r) ==
  /\ run[r].pc = "cs_query"
  /\ Set(r, [run[r] EXCEPT
        !.pc = IF tabOpen THEN "cs_reload" ELSE "cs_create",
        !.ops = @ \cup {"tabs.query"}])
  /\ UNCHANGED pageVars
  /\ UNCHANGED <<isSyncing, lastSyncTime, cancelSync, tabOpen, stopPending>>

\* Lines 724-730: no tab found, create one.  The new page is the notebook,
\* or a sign-in page that does not match the notebook URL patterns.
CsCreateTab(r) ==
  /\ run[r].pc = "cs_create"
  /\ \E notebook \in BOOLEAN :
       /\ tabOpen' = (tabOpen \/ notebook)
       /\ cancelSync' = IF notebook /\ ~tabOpen THEN FALSE ELSE cancelSync
  /\ Set(r, [run[r] EXCEPT !.pc = "cs_wait_created",
                           !.ops = @ \cup {"tabs.create"}])
  /\ UNCHANGED pageVars
  /\ UNCHANGED <<isSyncing, lastSyncTime, stopPending>>

\* Line 755: reload the first tab; its content script starts afresh.  If
\* the tab is gone the reload rejects, which line 796 turns into null.
CsReloadTab(r) ==
  /\ run[r].pc = "cs_reload"
  /\ cancelSync' = IF tabOpen THEN FALSE ELSE cancelSync
  /\ Set(r, [run[r] EXCEPT
        !.pc = IF tabOpen THEN "cs_wait_reloaded" ELSE "cs_return",
        !.contentScriptResult = NullResult,
        !.ops = @ \cup {"tabs.reload"}])
  /\ UNCHANGED pageVars
  /\ UNCHANGED <<isSyncing, lastSyncTime, tabOpen, stopPending>>

\* waitForTabLoad (lines 675-703) returns: the tab's status became
\* 'complete' or tabs.get threw.  While neither happens the run stays here.
\* After a create the tabs are queried again (lines 739-764).
WaitForTabLoad(r) ==
  /\ run[r].pc \in {"cs_wait_created", "cs_wait_reloaded"}
  /\ Set(r, IF run[r].pc = "cs_wait_created" /\ ~tabOpen
            THEN [run[r] EXCEPT !.pc = "cs_return",
                                !.contentScriptResult = NullResult]
            ELSE [run[r] EXCEPT !.pc = "cs_send"])
  /\ UNCHANGED pageVars
  /\ UNCHANGED <<isSyncing, lastSyncTime, cancelSync, tabOpen, stopPending>>

\* Line 779: tabs.sendMessage(tabId, SYNC_ALL_BOOKS).  Either the content
\* script receives it (kindle.content.ts lines 19-24: cancelSync = false,
\* syncAllBooks starts) or the send rejects and no tab is left to try.
CsSendMessage(r) ==
  /\ run[r].pc = "cs_send"
  /\ \E received \in BOOLEAN :
       /\ received => tabOpen
       /\ cancelSync' = IF received THEN FALSE ELSE cancelSync
       /\ Set(r, [run[r] EXCEPT
             !.pc = IF received THEN "sab_list" ELSE "cs_return",
             !.contentScriptResult = NullResult,
             !.ops = @ \cup {"SYNC_ALL_BOOKS"}])
  /\ UNCHANGED pageVars
  /\ UNCHANGED <<isSyncing, lastSyncTime, tabOpen, stopPending>>

\* ----------------------------------------- syncAllBooks (content script)
\* response.error?.includes('cancelled') || false   (line 783)
CancelledOf(error) == error = "Sync cancelled by user"

\* Lines 781-787: the response of the content script becomes the return
\* value of syncViaContentScript.
ResponseToResult(success, books, error) ==
  IF success
  THEN [present |-> TRUE, books |-> books, cancelled |-> CancelledOf(error)]
  ELSE NullResult

\* Lines 300-304: getBookListFromSidebar; an empty list or an exception
\* answers success = false.
SabList(r) ==
  /\ run[r].pc = "sab_list"
  /\ \E n \in 0..MaxBooks, throws \in BOOLEAN :
       Set(r, IF throws \/ n = 0
              THEN [run[r] EXCEPT
                     !.pc = "cs_return",
                     !.scraped = @ \cup {LiveDom},
                     !.contentScriptResult =
                        ResponseToResult(FALSE, <<>>,
                          IF throws THEN "exception"
                          ELSE "No books found in sidebar")]
              ELSE [run[r] EXCEPT
                     !.pc = "sab_loop", !.bookList = n, !.i = 1,
                     !.allBooks = <<>>,
                     !.scraped = @ \cup {LiveDom}])
  /\ UNCHANGED pageVars
  /\ UNCHANGED <<isSyncing, lastSyncTime, cancelSync, tabOpen, stopPending>>

\* Lines 308-395: one turn of the loop.  The loop is over (line 395), or
\* cancelSync is seen at the loop head (lines 310-313), or book i is
\* selected, the page settles and its highlights are extracted: h is their
\* number, clickable = FALSE is the 'continue' of line 342, throws is an
\* exception caught at line 397.  A STOP_SYNC that arrives while book i is
\* processed is read at the next loop head.
SabLoop(r) ==
  /\ run[r].pc = "sab_loop"
  /\ IF run[r].i > run[r].bookList
     THEN Set(r, [run[r] EXCEPT
                   !.pc = "cs_return",
                   !.contentScriptResult =
                      ResponseToResult(TRUE, run[r].allBooks, "none")])
     ELSE IF cancelSync
     THEN Set(r, [run[r] EXCEPT
                   !.pc = "cs_return",
                   !.contentScriptResult =
                      ResponseToResult(TRUE, run[r].allBooks,
                                       "Sync cancelled by user")])
     ELSE \E h \in 0..MaxHl, clickable \in BOOLEAN, throws \in BOOLEAN :
            Set(r, IF throws
                   THEN [run[r] EXCEPT
                          !.pc = "cs_return",
                          !.contentScriptResult =
                             ResponseToResult(FALSE, <<>>, "exception")]
                   ELSE [run[r] EXCEPT
                          !.i = @ + 1,
                          !.allBooks = IF clickable /\ h > 0
                                       THEN Append(@, Book(run[r].i, h))
                                       ELSE @])
  /\ UNCHANGED pageVars
  /\ UNCHANGED <<isSyncing, lastSyncTime, cancelSync, tabOpen, stopPending>>


\* ------------------------------------- syncKindleLibrary, strategy chain
\* Line 831 without its test of wasCancelled.
FallBackToFetchIgnoringCancel(books, wasCancelled) == Len(books) = 0

\* Line 831: if (books.length === 0 && !wasCancelled)
FallBackToFetch(books, wasCancelled) == Len(books) = 0 /\ ~wasCancelled

\* Line 863 without its test of books.length.
TryLegacyWithBooks(books, wasCancelled, useContentScript) ==
  ~wasCancelled /\ useContentScript

\* Line 863 without its test of useContentScript.
TryLegacyWhenScheduled(books, wasCancelled, useContentScript) ==
  Len(books) = 0 /\ ~wasCancelled

\* Line 863: if (books.length === 0 && !wasCancelled && useContentScript)
TryLegacy(books, wasCancelled, useContentScript) ==
  Len(books) = 0 /\ ~wasCancelled /\ useContentScript

\* Lines 869, 895, 912 with the empty list handed to submission.
FinalPcSubmitsEmpty(books, wasCancelled) ==
  IF wasCancelled THEN "cancel_clear" ELSE "submit"

\* Lines 869, 895, 912: the branch taken once the strategies are over.
FinalPc(books, wasCancelled) ==
  IF wasCancelled THEN "cancel_clear"
  ELSE IF Len(books) = 0 THEN "empty_clear"
  ELSE "submit"

\* Lines 835-840: the fetched list is kept only if it holds highlights.
FetchKeep(books) ==
  IF Len(books) > 0 /\ SumHl(books) > 0 THEN books ELSE <<>>

\* Lines 862-869: control after the fetch block has left rec.books.
AfterFetchBlock(rec) ==
  IF TryLegacy(rec.books, rec.wasCancelled, rec.useContentScript)
  THEN [rec EXCEPT !.pc = "legacy_login", !.started = Append(@, Legacy)]
  ELSE [rec EXCEPT !.pc = FinalPc(rec.books, rec.wasCancelled)]

\* Lines 816-831: syncViaContentScript has returned.
CsReturn(r) ==
  /\ run[r].pc = "cs_return"
  /\ LET res == run[r].contentScriptResult
         cancelled == res.present /\ res.cancelled
         books == IF res.present /\ (res.cancelled \/ Len(res.books) > 0)
                  THEN res.books ELSE <<>>
         rec == Finish([run[r] EXCEPT !.wasCancelled = cancelled,
                                      !.cancelled = cancelled,
                                      !.books = books],
                       LiveDom, Len(res.books), "none")
     IN Set(r, IF FallBackToFetch(books, cancelled)
               THEN [rec EXCEPT !.pc = "fetch_login",
                                !.started = Append(@, PerAsin)]
               ELSE AfterFetchBlock(rec))
  /\ UNCHANGED pageVars
  /\ UNCHANGED <<isSyncing, lastSyncTime, cancelSync, tabOpen, stopPending>>

\* ------------------------------- KindleScraper.scrapeAllBooksViaFetch
\* scrapeAllBooksViaFetch returned books (lines 834-840, 850-856).
FetchReturns(rec, books) ==
  AfterFetchBlock(Finish([rec EXCEPT !.books = FetchKeep(books)],
                         PerAsin, Len(books), "none"))

\* scrapeAllBooksViaFetch threw e: caught at line 841 or 857, books is
\* left as it was.
FetchThrows(rec, e) == AfterFetchBlock(Finish(rec, PerAsin, 0, e))

\* Lines 340 and 415 without the throw.
LoginGateOpen(isLoggedIn) == TRUE

\* Lines 340 and 415: if (!isLoggedIn) throw new Error('LOGIN_REQUIRED');
\* TRUE when the strategy goes on.
LoginGate(isLoggedIn) == isLoggedIn

\* Lines 339-342: checkLoginStatus, throw LOGIN_REQUIRED when it is false.
FetchLogin(r) ==
  /\ run[r].pc = "fetch_login"
  /\ \E isLoggedIn \in BOOLEAN :
       LET rec == [run[r] EXCEPT
                     !.checked = @ \cup {<<PerAsin, isLoggedIn>>}]
       IN Set(r, IF LoginGate(isLoggedIn)
                 THEN [rec EXCEPT !.pc = "fetch_main"]
                 ELSE FetchThrows(rec, "LOGIN_REQUIRED"))
  /\ UNCHANGED pageVars
  /\ UNCHANGED <<isSyncing, lastSyncTime, cancelSync, tabOpen, stopPending>>

\* What one per-book request of lines 372-383 can come to: outcome "failed"
\* is the 'continue' of line 379 or the catch of line 400, hl the number of
\* highlights extractHighlightsFromHtml finds in the page.
FetchResponses ==
  {x \in [outcome : {"ok", "failed"}, hl : 0..MaxHl] :
     x.outcome # "ok" => x.hl = 0}

RECURSIVE FetchLoopNewestFirst(_, _)
\* Lines 365-403 with unshift in place of push.
FetchLoopNewestFirst(resp, n) ==
  IF n = 0 THEN <<>>
  ELSE LET allBooks == FetchLoopNewestFirst(resp, n - 1)
       IN IF resp[n].outcome = "ok" /\ resp[n].hl > 0
          THEN <<Book(n, resp[n].hl)>> \o allBooks
          ELSE allBooks

RECURSIVE FetchLoop(_, _)
\* Lines 365-403: allBooks after the first n books of bookList, resp[k]
\* being the answer to the request for book k.
FetchLoop(resp, n) ==
  IF n = 0 THEN <<>>
  ELSE LET allBooks == FetchLoop(resp, n - 1)
       IN IF resp[n].outcome = "ok" /\ resp[n].hl > 0
          THEN Append(allBooks, Book(n, resp[n].hl))
          ELSE allBooks

\* Lines 344-406: fetch the library root, enumerate the books, request each
\* of them, return allBooks.
FetchMain(r) ==
  /\ run[r].pc = "fetch_main"
  /\ \E n \in 0..MaxBooks, throws \in BOOLEAN :
       LET rec == [run[r] EXCEPT !.scraped = @ \cup {PerAsin}]
       IN IF throws THEN Set(r, FetchThrows(rec, "other"))
          ELSE IF n = 0 THEN Set(r, FetchReturns(rec, <<>>))
          ELSE \E books \in {FetchLoop(resp, n) :
                                resp \in [1..n -> FetchResponses]} :
                 Set(r, FetchReturns(rec, books))
  /\ UNCHANGED pageVars
  /\ UNCHANGED <<isSyncing, lastSyncTime, cancelSync, tabOpen, stopPending>>

\* --------------------------------------- KindleScraper.scrapeHighlights
\* Lines 414-417: checkLoginStatus; LOGIN_REQUIRED reaches line 932.
LegacyLogin(r) ==
  /\ run[r].pc = "legacy_login"
  /\ \E isLoggedIn \in BOOLEAN :
       LET rec == [run[r] EXCEPT
                     !.checked = @ \cup {<<Legacy, isLoggedIn>>}]
       IN Set(r, IF LoginGate(isLoggedIn)
                 THEN [rec EXCEPT !.pc = "legacy_main"]
                 ELSE [Finish(rec, Legacy, 0, "LOGIN_REQUIRED") EXCEPT
                         !.pc = "catch", !.error = "LOGIN_REQUIRED"])
  /\ UNCHANGED pageVars
  /\ UNCHANGED <<isSyncing, lastSyncTime, cancelSync, tabOpen, stopPending>>

\* Lines 474-479 without the return of lines 431-434.
LegacyBooksWithoutHighlights(n, h) == <<Book(IF n > 0 THEN 1 ELSE 0, h)>>

\* Lines 431-434 and 474-479: no book when the page has no highlights,
\* else the single book of the legacy strategy.
LegacyBooks(n, h) ==
  IF h = 0 THEN <<>> ELSE <<Book(IF n > 0 THEN 1 ELSE 0, h)>>

\* Lines 419-480: fetch the library root, extract once.
LegacyMain(r) ==
  /\ run[r].pc = "legacy_main"
  /\ \E n \in 0..MaxBooks, h \in 0..MaxHl, throws \in BOOLEAN :
       LET rec == [run[r] EXCEPT !.scraped = @ \cup {Legacy}]
       IN Set(r, IF throws
                 THEN [Finish(rec, Legacy, 0, "other") EXCEPT
                         !.pc = "catch", !.error = "other"]
                 ELSE [Finish(rec, Legacy, Len(LegacyBooks(n, h)), "none") EXCEPT
                         !.books = LegacyBooks(n, h),
                         !.pc = FinalPc(LegacyBooks(n, h),
                                        rec.wasCancelled)])
  /\ UNCHANGED pageVars
  /\ UNCHANGED <<isSyncing, lastSyncTime, cancelSync, tabOpen, stopPending>>


\* ------------------------------------ syncKindleLibrary, the exit paths
\* Line 890.
CancelledResult == SyncResult(FALSE, 0, 0, "Sync cancelled")

\* Line 908.
EmptyResult == SyncResult(TRUE, 0, 0, "none")

\* Lines 946 and 957: the result built from the caught error.
ErrorResult(e) == SyncResult(FALSE, 0, 0, e)

\* Lines 938-955: the notification of the catch block.
ErrorNote(e) == IF e = "LOGIN_REQUIRED" THEN "login-required" ELSE "failed"

\* Line 870 with the lastSyncTime of lines 897 and 925 written as well.
CancelClearSavingTime(r) ==
  /\ run[r].pc = "cancel_clear"
  /\ isSyncing' = FALSE
  /\ lastSyncTime' = lastSyncTime + 1
  /\ Set(r, [run[r] EXCEPT !.pc = "cancel_tabs", !.clears = @ + 1,
                           !.books = <<>>])
  /\ UNCHANGED pageVars
  /\ UNCHANGED <<cancelSync, tabOpen, stopPending>>

\* Line 870: cancelled, clear the flag.  books, kept for logging at line
\* 823, is not read again.
CancelClear(r) ==
  /\ run[r].pc = "cancel_clear"
  /\ isSyncing' = FALSE
  /\ Set(r, [run[r] EXCEPT !.pc = "cancel_tabs", !.clears = @ + 1,
                           !.books = <<>>])
  /\ UNCHANGED pageVars
  /\ UNCHANGED <<lastSyncTime, cancelSync, tabOpen, stopPending>>

\* Lines 873-890: close the Kindle tabs, notify 'Sync was stopped.', return.
CancelCloseTabs(r) ==
  /\ run[r].pc = "cancel_tabs"
  /\ tabOpen' = FALSE
  /\ Set(r, Return([run[r] EXCEPT
        !.ops = @ \cup (IF tabOpen THEN {"tabs.query", "tabs.remove"}
                        ELSE {"tabs.query"}),
        !.notes = Append(@, "stopped")], CancelledResult))
  /\ UNCHANGED pageVars
  /\ UNCHANGED <<isSyncing, lastSyncTime, cancelSync, stopPending>>

\* Lines 873-880 when the tab returned by tabs.query is closed by the user
\* before tabs.remove reaches it: tabs.remove rejects, caught at line 932.
TabCloseRejects(r) ==
  /\ run[r].pc = "cancel_tabs"
  /\ tabOpen
  /\ tabOpen' = FALSE
  /\ Set(r, [run[r] EXCEPT !.pc = "catch", !.error = "other",
                           !.ops = @ \cup {"tabs.query", "tabs.remove"}])
  /\ UNCHANGED pageVars
  /\ UNCHANGED <<isSyncing, lastSyncTime, cancelSync, stopPending>>

\* Lines 895-909: nothing scraped.
EmptyClear(r) ==
  /\ run[r].pc = "empty_clear"
  /\ isSyncing' = FALSE
  /\ lastSyncTime' = lastSyncTime + 1
  /\ Set(r, Return([run[r] EXCEPT !.clears = @ + 1,
                                  !.notes = Append(@, "no-highlights")],
                    EmptyResult))
  /\ UNCHANGED pageVars
  /\ UNCHANGED <<cancelSync, tabOpen, stopPending>>

\* What the POST of lines 633-649 for one book can come to: outcome
\* "failed" is the non-OK response of line 656 or the catch of line 660,
\* imported is result.highlightsImported || 0 of an OK response.
SubmitResponses ==
  {x \in [outcome : {"ok", "failed"}, imported : 0..MaxHl] :
     x.outcome # "ok" => x.imported = 0}

RECURSIVE SubmitLoopUntilFailure(_, _, _)
\* Lines 625-663 with the loop left at the first non-OK response or thrown
\* error.
SubmitLoopUntilFailure(books, resp, n) ==
  IF n = 0
  THEN [booksProcessed |-> 0, highlightsImported |-> 0, posts |-> 0,
        requests |-> <<>>]
  ELSE LET acc == SubmitLoopUntilFailure(books, resp, n - 1)
       IN IF books[n].hl = 0 THEN acc
          ELSE IF \E k \in 1..(n - 1) :
                    books[k].hl > 0 /\ resp[k].outcome # "ok"
          THEN acc
          ELSE [booksProcessed |->
                   acc.booksProcessed +
                     (IF resp[n].outcome = "ok" THEN 1 ELSE 0),
                highlightsImported |->
                   acc.highlightsImported + resp[n].imported,
                posts |-> acc.posts + 1,
                requests |-> Append(acc.requests, books[n].asin)]

RECURSIVE SubmitLoop(_, _, _)
\* Lines 625-663: the counters after the first n books, and the books a
\* POST was made for, in the order of the requests; a book without
\* highlights is skipped (line 629), a non-OK response or a thrown error
\* adds nothing to the counts.
SubmitLoop(books, resp, n) ==
  IF n = 0
  THEN [booksProcessed |-> 0, highlightsImported |-> 0, posts |-> 0,
        requests |-> <<>>]
  ELSE LET acc == SubmitLoop(books, resp, n - 1)
       IN IF books[n].hl = 0 THEN acc
          ELSE [booksProcessed |->
                   acc.booksProcessed +
                     (IF resp[n].outcome = "ok" THEN 1 ELSE 0),
                highlightsImported |->
                   acc.highlightsImported + resp[n].imported,
                posts |-> acc.posts + 1,
                requests |-> Append(acc.requests, books[n].asin)]

\* The answers the Lektr API can give to the requests for books: at most
\* as many highlights imported as the book holds.
SubmitAnswers(books) ==
  {resp \in [1..Len(books) -> SubmitResponses] :
     \A k \in 1..Len(books) : resp[k].imported <= books[k].hl}

\* Lines 912-920: submitHighlightsToLektr(books) runs and returns, the
\* 'Lektr Sync Complete' notification is created.  books is not read again.
Submit(r) ==
  /\ run[r].pc = "submit"
  /\ \E result \in {SubmitLoop(run[r].books, resp, Len(run[r].books)) :
                      resp \in SubmitAnswers(run[r].books)} :
       Set(r, [run[r] EXCEPT
             !.pc = "success_clear",
             !.books = <<>>,
             !.booksProcessed = result.booksProcessed,
             !.highlightsImported = result.highlightsImported,
             !.submits = @ + 1,
             !.posted = @ \/ result.posts > 0,
             !.notes = Append(@, "complete")])
  /\ UNCHANGED pageVars
  /\ UNCHANGED <<isSyncing, lastSyncTime, cancelSync, tabOpen, stopPending>>

\* Lines 923-930: clear the flag, save the time, return the result.
SuccessClear(r) ==
  /\ run[r].pc = "success_clear"
  /\ isSyncing' = FALSE
  /\ lastSyncTime' = lastSyncTime + 1
  /\ Set(r, Return([run[r] EXCEPT !.clears = @ + 1],
                    SyncResult(TRUE, run[r].booksProcessed,
                               run[r].highlightsImported, "none")))
  /\ UNCHANGED pageVars
  /\ UNCHANGED <<cancelSync, tabOpen, stopPending>>

\* Lines 932-958: the catch block.
Catch(r) ==
  /\ run[r].pc = "catch"
  /\ isSyncing' = FALSE
  /\ Set(r, Return([run[r] EXCEPT
                       !.clears = @ + 1,
                       !.notes = Append(@, ErrorNote(run[r].error))],
                    ErrorResult(run[r].error)))
  /\ UNCHANGED pageVars
  /\ UNCHANGED <<lastSyncTime, cancelSync, tabOpen, stopPending>>

Next ==
  \/ \E r \in Runs : PopupSyncNow(r)
  \/ \E r \in Runs : BridgeSyncNow(r)
  \/ \E r \in Runs : OnAlarm(r)
  \/ PopupStop
  \/ ForwardStop
  \/ \E r \in Runs : Entry(r)
  \/ \E r \in Runs : CsQueryTabs(r)
  \/ \E r \in Runs : CsCreateTab(r)
  \/ \E r \in Runs : CsReloadTab(r)
  \/ \E r \in Runs : WaitForTabLoad(r)
  \/ \E r \in Runs : CsSendMessage(r)
  \/ \E r \in Runs : SabList(r)
  \/ \E r \in Runs : SabLoop(r)
  \/ \E r \in Runs : CsReturn(r)
  \/ \E r \in Runs : FetchLogin(r)
  \/ \E r \in Runs : FetchMain(r)
  \/ \E r \in Runs : LegacyLogin(r)
  \/ \E r \in Runs : LegacyMain(r)
  \/ \E r \in Runs : CancelClear(r)
  \/ \E r \in Runs : CancelCloseTabs(r)
  \/ \E r \in Runs : TabCloseRejects(r)
  \/ \E r \in Runs : EmptyClear(r)
  \/ \E r \in Runs : Submit(r)
  \/ \E r \in Runs : SuccessClear(r)
  \/ \E r \in Runs : Catch(r)

Spec == Init /\ [][Next]_vars

\* -------------------------------------------- rejecting storage writes
\* An awaited browser.storage.local.set rejects: at line 806 the rejection
\* leaves syncKindleLibrary (it is outside the try), at lines 870, 896 and
\* 923 it is caught at line 932, at line 936 it leaves the catch block.
StorageSetRejects(r) ==
  /\ run[r].pc \in {"entry", "cancel_clear", "empty_clear",
                    "success_clear", "catch"}
  /\ Set(r, IF run[r].pc \in {"entry", "catch"}
            THEN Leave(run[r], "rejected")
            ELSE [run[r] EXCEPT !.pc = "catch", !.error = "other"])
  /\ UNCHANGED pageVars
  /\ UNCHANGED <<isSyncing, lastSyncTime, cancelSync, tabOpen, stopPending>>

NextRejecting ==
  \/ Next
  \/ \E r \in Runs : StorageSetRejects(r)

SpecRejecting == Init /\ [][NextRejecting]_vars


\* ------------------------------------------------------------ scheduling
\* The steps of run r whose awaited call returns or throws by itself: every
\* step of syncKindleLibrary and of the strategies but the return of
\* waitForTabLoad.
RunStep(r) ==
  \/ Entry(r)
  \/ CsQueryTabs(r)
  \/ CsCreateTab(r)
  \/ CsReloadTab(r)
  \/ CsSendMessage(r)
  \/ SabList(r)
  \/ SabLoop(r)
  \/ CsReturn(r)
  \/ FetchLogin(r)
  \/ FetchMain(r)
  \/ LegacyLogin(r)
  \/ LegacyMain(r)
  \/ CancelClear(r)
  \/ CancelCloseTabs(r)
  \/ EmptyClear(r)
  \/ Submit(r)
  \/ SuccessClear(r)
  \/ Catch(r)

\* Every browser and network call eventually returns or throws, so a run
\* does not stop at one of its awaits.  waitForTabLoad (lines 679-695) has no
\* timeout: it polls tabs.get every 200 ms and returns only once the status
\* is 'complete' or tabs.get throws, which a page that keeps loading never
\* brings about; its return is not subject to fairness.
Fairness == \A r \in Runs : WF_vars(RunStep(r))

SpecLive == Spec /\ Fairness

\* ------------------------- scrollSidebarToLoadAllBooks (content script)
MaxCount == 2     \* book elements the sidebar can show

\* Line 92: const maxIterations = 100.
maxIterations == 100

\* Line 134: the spinner is polled while spinnerChecks < 15.
maxSpinnerChecks == 15

\* Line 94 with one more turn.
ScrollGoesOnOneMore(i) == i <= maxIterations

\* Line 94: i < maxIterations
ScrollGoesOn(i) == i < maxIterations

\* Line 103 trusting a single stable iteration.
StableAfterOne(sameCountIterations) == sameCountIterations >= 1

\* Line 103: if (sameCountIterations >= 2) break
StableEnough(sameCountIterations) == sameCountIterations >= 2

\* Line 134: while (document.querySelector(...) && spinnerChecks < 15)
SpinnerWaitGoesOn(present, spinnerChecks) ==
  present /\ spinnerChecks < maxSpinnerChecks

\* The last three book counts observed, newest last.
LastThree(seen, count) ==
  LET all == Append(seen, count)
  IN IF Len(all) > 3 THEN Tail(all) ELSE all

\* Lines 74-91: the call starts; without a scroll container it returns.
InitScroll ==
  /\ InitSync
  /\ \E found \in BOOLEAN :
       call = [pc |-> IF found THEN "loop" ELSE "returned",
                 i |-> 0,
                 previousBookCount |-> 0,
                 sameCountIterations |-> 0,
                 spinnerChecks |-> 0,
                 \* history, read only by the properties
                 seen |-> <<>>,          \* last three counts observed
                 scrolls |-> 0,          \* times the container was scrolled
                 stoppedEarly |-> FALSE] \* left by the break of line 105

\* Lines 94-126: the loop head, the count of this iteration, the stability
\* test, the scroll and the 500 ms wait.
ScrollIterate ==
  /\ call.pc = "loop"
  /\ IF ~ScrollGoesOn(call.i)
     THEN call' = [call EXCEPT !.pc = "top"]
     ELSE \E currentBookCount \in 0..MaxCount :
            LET stable == currentBookCount = call.previousBookCount
                          /\ currentBookCount > 0
                same == IF stable THEN call.sameCountIterations + 1 ELSE 0
                seen == LastThree(call.seen, currentBookCount)
            IN IF stable /\ StableEnough(same)
               THEN call' = [call EXCEPT !.pc = "top",
                                             !.sameCountIterations = same,
                                             !.seen = seen,
                                             !.stoppedEarly = TRUE]
               ELSE call' = [call EXCEPT !.pc = "spinner",
                                             !.sameCountIterations = same,
                                             !.previousBookCount =
                                                currentBookCount,
                                             !.spinnerChecks = 0,
                                             !.seen = seen,
                                             !.scrolls = @ + 1]
  /\ UNCHANGED syncVars

\* Lines 129-140: one evaluation of the spinner test; while it holds, wait
\* 200 ms and count.  present is what querySelector finds this time.
SpinnerPoll ==
  /\ call.pc = "spinner"
  /\ \E present \in BOOLEAN :
       call' = IF SpinnerWaitGoesOn(present, call.spinnerChecks)
                 THEN [call EXCEPT !.spinnerChecks = @ + 1]
                 ELSE [call EXCEPT !.pc = "settle"]
  /\ UNCHANGED syncVars

\* Line 143 and the i++ of line 94.
ScrollSettle ==
  /\ call.pc = "settle"
  /\ call' = [call EXCEPT !.pc = "loop", !.i = @ + 1]
  /\ UNCHANGED syncVars

\* Lines 147-149: back to the top, return.
ScrollToTop ==
  /\ call.pc = "top"
  /\ call' = [call EXCEPT !.pc = "returned"]
  /\ UNCHANGED syncVars

NextScroll ==
  \/ ScrollIterate
  \/ SpinnerPoll
  \/ ScrollSettle
  \/ ScrollToTop

\* The timers of lines 126, 136, 143 and 148 fire.
SpecScroll == InitScroll /\ [][NextScroll]_vars /\ WF_vars(NextScroll)

\* ----------------------------- waitForHighlightsToChange (content script)
MaxTextLen == 2   \* characters of a highlight's text
SigChars == 1     \* characters of the first text kept by substring(0, 50)
MaxTimeout == 3   \* timeout, in units of the 200 ms poll delay
MaxDelay == 2     \* units a throttled timer may take to fire

Chars == {"a", "b"}

\* The texts of at most n characters.
Texts(n) == UNION {[1..k -> Chars] : k \in 0..n}

\* first.substring(0, 50), the length scaled to SigChars.
Prefix(text, n) == SubSeq(text, 1, IF Len(text) < n THEN Len(text) ELSE n)

\* getHighlightsSignature: '' without highlights, else the number of
\* highlights and the start of the first one's text.
Signature(count, first) ==
  IF count = 0 THEN <<>> ELSE <<count, Prefix(first, SigChars)>>

Signatures == {Signature(c, t) : c \in 0..MaxHl, t \in Texts(MaxTextLen)}

\* Line 274: currentSignature !== previousSignature || noHighlights
Changed(currentSignature, previousSignature, noHighlights) ==
  currentSignature # previousSignature \/ noHighlights

\* Line 280 with the timeout itself counted as elapsed.
TimedOutAtTimeout(elapsed, timeout) == elapsed >= timeout

\* Line 280: Date.now() - startTime > timeout
TimedOut(elapsed, timeout) == elapsed > timeout

\* Lines 263-266, 291: the promise is created, the first poll is armed.
InitSettle ==
  /\ InitSync
  /\ \E previousSignature \in Signatures, timeout \in 0..MaxTimeout :
       call = [pc |-> "waiting",
               previousSignature |-> previousSignature,
               timeout |-> timeout,
               elapsed |-> 0,          \* Date.now() - startTime
               checks |-> 0,
               resolves |-> 0,         \* calls of resolve
               value |-> FALSE,        \* the value resolved with
               \* what the last poll saw, read only by the properties
               sawChange |-> FALSE,
               sawTimeout |-> FALSE]

\* Lines 268-288: the timer fires after delay units; checkForChange reads
\* the page and resolves or re-arms the timer.
CheckForChange ==
  /\ call.pc = "waiting"
  /\ \E delay \in 1..MaxDelay, count \in 0..MaxHl,
        first \in Texts(MaxTextLen), noHighlights \in BOOLEAN :
       LET elapsed == call.elapsed + delay
           changed == Changed(Signature(count, first),
                              call.previousSignature, noHighlights)
           seen == [call EXCEPT
                      !.elapsed = elapsed,
                      !.checks = @ + 1,
                      !.sawChange =
                         Signature(count, first) # call.previousSignature
                         \/ noHighlights,
                      !.sawTimeout = elapsed > call.timeout]
       IN call' = IF changed
                  THEN [seen EXCEPT !.pc = "resolved", !.resolves = @ + 1,
                                    !.value = TRUE]
                  ELSE IF TimedOut(elapsed, call.timeout)
                  THEN [seen EXCEPT !.pc = "resolved", !.resolves = @ + 1,
                                    !.value = FALSE]
                  ELSE seen
  /\ UNCHANGED syncVars

NextSettle == CheckForChange

\* The timers of lines 287 and 291 fire.
SpecSettle == InitSettle /\ [][NextSettle]_vars /\ WF_vars(NextSettle)

\* ------------------------------ syncAllBooks in detail (content script)
\* Line 310 without the test.
CancelNeverSeen(flag) == FALSE

\* Line 310: if (cancelSync)
CancelSeen(flag) == flag

\* The response syncAllBooks resolves with.
SabResponse(success, books, error) ==
  [success |-> success, books |-> books, error |-> error]

\* Lines 298-306: getBookListFromSidebar has returned bookList books (at
\* least one, see SabList); the STOP_SYNC handler may have run already.
InitSab ==
  /\ InitSync
  /\ \E n \in 1..MaxBooks :
       call = [pc |-> "head",
               bookList |-> n,
               i |-> 1,
               allBooks |-> <<>>,
               target |-> "none",      \* what is clicked: link, span, none
               response |-> SabResponse(FALSE, <<>>, "none"),
               \* history, read only by the properties
               clicks |-> 0,           \* clicks issued for book i
               waits |-> 0,            \* settle waits made for book i
               timedOut |-> 0,         \* settle waits of book i timed out
               extracted |-> FALSE,    \* book i was extracted
               checks |-> 0,           \* reads of cancelSync
               sawCancel |-> FALSE,    \* cancelSync was set at a loop head
               dom |-> 0,              \* clicks, waits, extractions so far
               domAtCancel |-> 0]      \* dom when cancelSync was seen set

\* kindle.content.ts lines 37-42: STOP_SYNC arrives.
SabStopSync ==
  /\ call.pc \in {"head", "wait1", "wait2", "extract"}
  /\ ~cancelSync
  /\ cancelSync' = TRUE
  /\ UNCHANGED <<call, run, isSyncing, lastSyncTime, tabOpen, stopPending>>

\* Lines 308-343 and 394-395: the loop head.  The loop is over, or the flag
\* is read, or the book is scrolled into view and clicked: on its link, else
\* on its .a-declarative span, else the book is passed over (line 342).
SabHead ==
  /\ call.pc = "head"
  /\ IF call.i > call.bookList
     THEN call' = [call EXCEPT
                     !.pc = "returned",
                     !.response = SabResponse(TRUE, call.allBooks, "none")]
     ELSE LET read == [call EXCEPT
                         !.checks = @ + 1,
                         !.sawCancel = cancelSync,
                         !.domAtCancel = call.dom,
                         !.clicks = 0, !.waits = 0, !.timedOut = 0,
                         !.extracted = FALSE, !.target = "none"]
          IN IF CancelSeen(cancelSync)
             THEN call' = [read EXCEPT
                             !.pc = "returned",
                             !.response =
                                SabResponse(TRUE, call.allBooks,
                                            "Sync cancelled by user")]
             ELSE \E target \in {"link", "span", "none"} :
                    call' = IF target = "none"
                            THEN [read EXCEPT !.i = @ + 1]
                            ELSE [read EXCEPT !.pc = "wait1",
                                              !.target = target,
                                              !.clicks = 1,
                                              !.dom = @ + 1]
  /\ UNCHANGED syncVars

\* Lines 348-364: the first settle wait returns; when it timed out the click
\* is repeated: on the link, or on the span if querySelector still finds it.
SabWait1 ==
  /\ call.pc = "wait1"
  /\ \E loaded \in BOOLEAN, spanFound \in BOOLEAN :
       LET again == call.target = "link" \/ spanFound
           waited == [call EXCEPT !.waits = @ + 1, !.dom = @ + 1]
       IN call' = IF loaded
                  THEN [waited EXCEPT !.pc = "extract"]
                  ELSE [waited EXCEPT
                          !.pc = "wait2",
                          !.timedOut = @ + 1,
                          !.clicks = IF again THEN @ + 1 ELSE @,
                          !.dom = IF again THEN @ + 1 ELSE @]
  /\ UNCHANGED syncVars

\* Lines 364-369: the second settle wait returns; loaded or not, go on.
SabWait2 ==
  /\ call.pc = "wait2"
  /\ \E loaded \in BOOLEAN :
       call' = [call EXCEPT !.pc = "extract",
                            !.waits = @ + 1,
                            !.dom = @ + 1,
                            !.timedOut = IF loaded THEN @ ELSE @ + 1]
  /\ UNCHANGED syncVars

\* Lines 371-392: extract the highlights shown, keep the book if there are
\* any; an exception is caught at line 397.
SabExtract ==
  /\ call.pc = "extract"
  /\ \E h \in 0..MaxHl, throws \in BOOLEAN :
       call' = IF throws
               THEN [call EXCEPT
                       !.pc = "returned",
                       !.response = SabResponse(FALSE, <<>>, "exception")]
               ELSE [call EXCEPT
                       !.pc = "head",
                       !.i = @ + 1,
                       !.extracted = TRUE,
                       !.dom = @ + 1,
                       !.allBooks = IF h > 0
                                    THEN Append(@, Book(call.i, h))
                                    ELSE @]
  /\ UNCHANGED syncVars

NextSab ==
  \/ SabStopSync
  \/ SabHead
  \/ SabWait1
  \/ SabWait2
  \/ SabExtract

SpecSab == InitSab /\ [][NextSab]_vars

\* ------------------- scrapeAllBooksViaFetch, the per-book loop in detail
\* What the request of lines 372-375 can come to, the non-OK response and
\* the thrown error kept apart.
FetchAnswers ==
  {x \in [outcome : {"ok", "not ok", "throws"}, hl : 0..MaxHl] :
     x.outcome # "ok" => x.hl = 0}

\* The answer as FetchLoop reads it.
AsResponse(answer) ==
  [outcome |-> IF answer.outcome = "ok" THEN "ok" ELSE "failed",
   hl |-> answer.hl]

\* Lines 377 and 385 keeping a book without highlights.
KeepsAnyOkBook(answer) == answer.outcome = "ok"

\* Lines 377 and 385: the response is OK and highlights.length > 0.
KeepsBook(answer) == answer.outcome = "ok" /\ answer.hl > 0

\* Lines 356-365: bookList has n books; answers[k] is what the request for
\* book k will come to.
InitFetch ==
  /\ InitSync
  /\ \E n \in 1..MaxBooks :
       \E answers \in [1..n -> FetchAnswers] :
         call = [pc |-> "loop",
                 bookList |-> n,
                 answers |-> answers,
                 i |-> 1,
                 allBooks |-> <<>>,
                 result |-> <<>>,
                 \* history, read only by the properties
                 requested |-> <<>>]   \* books requested, in order

\* Lines 367-403: one turn of the loop: request book i, skip it on a non-OK
\* response (line 379) or a thrown error (line 400), else extract and keep
\* it if it has highlights.
FetchBook ==
  /\ call.pc = "loop"
  /\ call.i <= call.bookList
  /\ call' = [call EXCEPT
        !.i = @ + 1,
        !.requested = Append(@, call.i),
        !.allBooks = IF KeepsBook(call.answers[call.i])
                     THEN Append(@, Book(call.i, call.answers[call.i].hl))
                     ELSE @]
  /\ UNCHANGED syncVars

\* Lines 405-406: return allBooks.
FetchReturn ==
  /\ call.pc = "loop"
  /\ call.i > call.bookList
  /\ call' = [call EXCEPT !.pc = "returned", !.result = call.allBooks]
  /\ UNCHANGED syncVars

NextFetch ==
  \/ FetchBook
  \/ FetchReturn

SpecFetch == InitFetch /\ [][NextFetch]_vars

\* ---------------------------------------- the book list of the source
\* The most book elements the notebook page is given.
MaxSource == 3

\* The id attribute of a book element: an ASIN, or "" for an element with
\* no id or with an id that does not start with B.
ElementIds == {"B1", "B2", ""}

Asin == ElementIds \ {""}

\* The notebook page: its book elements in document order.
Sources ==
  UNION {[1..n -> ElementIds] : n \in 0..MaxSource}

\* kindle.content.ts lines 161-181: every element whose id starts with B
\* is pushed, in document order.
getBookListFromSidebar(elements) ==
  SelectSeq(elements, LAMBDA id : id # "")

\* part_000 lines 490-528: every book div in which an id="B..." is found is
\* pushed, in the order of the matches.
extractBookList(divs) ==
  SelectSeq(divs, LAMBDA id : id # "")

RECURSIVE CollectBooks(_, _, _)
\* kindle.content.ts lines 306-391 and part_000 lines 367-403: the first n
\* books of the list are visited in turn and a book is pushed, under its
\* asin, when its page gave highlights.
CollectBooks(bookList, hl, n) ==
  IF n = 0 THEN <<>>
  ELSE LET allBooks == CollectBooks(bookList, hl, n - 1)
       IN IF hl[bookList[n]] > 0
          THEN Append(allBooks, [asin |-> bookList[n], hl |-> hl[bookList[n]]])
          ELSE allBooks

InitList ==
  /\ InitSync
  /\ \E source \in Sources :
       call = [pc |-> "page", source |-> source, strategy |-> "none",
               bookList |-> <<>>, result |-> <<>>]

\* kindle.content.ts line 300: the Live-DOM strategy reads the sidebar.
ListFromSidebar ==
  /\ call.pc = "page"
  /\ call' = [call EXCEPT !.pc = "listed", !.strategy = LiveDom,
                          !.bookList = getBookListFromSidebar(call.source)]
  /\ UNCHANGED syncVars

\* part_000 line 356: the Per-ASIN fetch strategy reads the fetched page.
ListFromHtml ==
  /\ call.pc = "page"
  /\ call' = [call EXCEPT !.pc = "listed", !.strategy = PerAsin,
                          !.bookList = extractBookList(call.source)]
  /\ UNCHANGED syncVars

\* kindle.content.ts lines 306-395, part_000 lines 365-406: the loop over
\* the list; hl[a] is the number of highlights the page of book a gives.
CollectAll ==
  /\ call.pc = "listed"
  /\ \E hl \in [Asin -> 0..MaxHl] :
       call' = [call EXCEPT
          !.pc = "returned",
          !.result = CollectBooks(call.bookList, hl, Len(call.bookList))]
  /\ UNCHANGED syncVars

NextList ==
  \/ ListFromSidebar
  \/ ListFromHtml
  \/ CollectAll

SpecList == InitList /\ [][NextList]_vars

\* ------------------------------------------- the highlight extractors
\* The most highlight blocks a book's page is given.
MaxBlocks == 2

\* A highlight block of the markup: its highlight marker with text or
\* empty, with or without a header marker, with or without a note marker.
Blocks == [content : BOOLEAN, header : BOOLEAN, note : BOOLEAN]

Markups == UNION {[1..n -> Blocks] : n \in 0..MaxBlocks}

\* The blocks of a markup, by their position.
Indices(blocks) == [k \in 1..Len(blocks) |-> k]

\* A highlight of the result: the block its text was taken from, and the
\* blocks its header (location, color) and its note were taken from, 0 for
\* null.
Highlight(content, header, note) ==
  [content |-> content, header |-> header, note |-> note]

\* list[i] || null
At(list, i) == IF i \in 1..Len(list) THEN list[i] ELSE 0

\* part_000 lines 553-593: the non-empty highlight texts, the headers and
\* the notes are collected separately over the whole page and combined by
\* their index in those lists.
extractHighlightsFromHtml(blocks) ==
  LET highlightTexts == SelectSeq(Indices(blocks), LAMBDA k : blocks[k].content)
      headers == SelectSeq(Indices(blocks), LAMBDA k : blocks[k].header)
      notes == SelectSeq(Indices(blocks), LAMBDA k : blocks[k].note)
  IN [i \in 1..Len(highlightTexts) |->
        Highlight(highlightTexts[i], At(headers, i), At(notes, i))]

\* part_001 lines 33-54: every highlight element is visited with its index
\* i among the highlight elements, an empty one is skipped, and the header
\* and the note are the i-th of the page's header and note elements.
extractHighlightsFromDOM(blocks) ==
  LET headerEls == SelectSeq(Indices(blocks), LAMBDA k : blocks[k].header)
      noteEls == SelectSeq(Indices(blocks), LAMBDA k : blocks[k].note)
      kept == SelectSeq(Indices(blocks), LAMBDA k : blocks[k].content)
  IN [i \in 1..Len(kept) |->
        Highlight(kept[i], At(headerEls, kept[i]), At(noteEls, kept[i]))]

\* kindle.content.ts lines 194-238: every highlight span is visited, an
\* empty one is skipped, and the header and the note are looked up inside
\* the span's own .kp-notebook-row-separator container.
extractCurrentHighlights(blocks) ==
  LET kept == SelectSeq(Indices(blocks), LAMBDA k : blocks[k].content)
  IN [i \in 1..Len(kept) |->
        Highlight(kept[i],
                  IF blocks[kept[i]].header THEN kept[i] ELSE 0,
                  IF blocks[kept[i]].note THEN kept[i] ELSE 0)]

InitExtract ==
  /\ InitSync
  /\ \E blocks \in Markups :
       call = [pc |-> "markup", blocks |-> blocks, by |-> "none",
               highlights |-> <<>>]

\* part_000 line 383: the page of a book, fetched by the background.
ExtractFromHtml ==
  /\ call.pc = "markup"
  /\ call' = [call EXCEPT !.pc = "extracted", !.by = "extractHighlightsFromHtml",
                          !.highlights = extractHighlightsFromHtml(call.blocks)]
  /\ UNCHANGED syncVars

\* part_001 line 149: the page of a book, parsed in the offscreen document.
ExtractFromDOM ==
  /\ call.pc = "markup"
  /\ call' = [call EXCEPT !.pc = "extracted", !.by = "extractHighlightsFromDOM",
                          !.highlights = extractHighlightsFromDOM(call.blocks)]
  /\ UNCHANGED syncVars

\* kindle.content.ts line 372: the book shown in the tab.
ExtractCurrent ==
  /\ call.pc = "markup"
  /\ call' = [call EXCEPT !.pc = "extracted", !.by = "extractCurrentHighlights",
                          !.highlights = extractCurrentHighlights(call.blocks)]
  /\ UNCHANGED syncVars

NextExtract ==
  \/ ExtractFromHtml
  \/ ExtractFromDOM
  \/ ExtractCurrent

SpecExtract == InitExtract /\ [][NextExtract]_vars

\* ------------------------------------- decodeHtmlEntities and the texts
\* The most pieces a text of the markup is given.
MaxMarkup == 4

\* The pieces a text of the markup is written with: "&" followed by "amp;"
\* spells the entity &amp;, and so on; "a" is any other character. A piece
\* with a name is, without the "&" before it, ordinary text.
MarkupChars == {"&", "amp;", "lt;", "nbsp;", " ", "a"}

MarkupTexts == UNION {[1..n -> MarkupChars] : n \in 0..MaxMarkup}

\* \s of a JavaScript pattern, and what trim() strips: the space and the
\* non-breaking space U+00A0.
Whitespace == {" ", "U+00A0"}

\* part_000 lines 600-607: the entities in the order of the replace calls,
\* each with the character put in its place.
Entities ==
  << <<"amp;", "&">>, <<"lt;", "<">>, <<"gt;", ">">>, <<"quot;", "\"">>,
     <<"#39;", "'">>, <<"#x27;", "'">>, <<"nbsp;", " ">>, <<"#x2F;", "/">> >>

RECURSIVE ReplaceAll(_, _, _)
\* text.replace(/&name/g, ch): every occurrence, from left to right.
ReplaceAll(text, name, ch) ==
  IF text = <<>> THEN <<>>
  ELSE IF Len(text) >= 2 /\ text[1] = "&" /\ text[2] = name
       THEN <<ch>> \o ReplaceAll(SubSeq(text, 3, Len(text)), name, ch)
       ELSE <<text[1]>> \o ReplaceAll(Tail(text), name, ch)

RECURSIVE ReplaceEntities(_, _)
\* part_000 lines 600-607: the first k replace calls, one after the other,
\* each on the result of the one before.
ReplaceEntities(text, k) ==
  IF k = 0 THEN text
  ELSE ReplaceAll(ReplaceEntities(text, k - 1), Entities[k][1], Entities[k][2])

RECURSIVE CollapseSpaces(_)
\* part_000 line 608: .replace(/\s+/g, ' ')
CollapseSpaces(text) ==
  IF text = <<>> THEN <<>>
  ELSE IF text[1] \in Whitespace
       THEN IF Len(text) >= 2 /\ text[2] \in Whitespace
            THEN CollapseSpaces(Tail(text))
            ELSE <<" ">> \o CollapseSpaces(Tail(text))
       ELSE <<text[1]>> \o CollapseSpaces(Tail(text))

RECURSIVE TrimStart(_)
TrimStart(text) ==
  IF text # <<>> /\ text[1] \in Whitespace THEN TrimStart(Tail(text)) ELSE text

RECURSIVE TrimEnd(_)
TrimEnd(text) ==
  IF text # <<>> /\ text[Len(text)] \in Whitespace
  THEN TrimEnd(SubSeq(text, 1, Len(text) - 1))
  ELSE text

\* String.prototype.trim()
TrimText(text) == TrimEnd(TrimStart(text))

\* part_000 lines 598-610.
decodeHtmlEntities(text) ==
  TrimText(CollapseSpaces(ReplaceEntities(text, Len(Entities))))

RECURSIVE textContent(_)
\* The text of an element as the browser's parser gives it: every entity
\* read once, from left to right; &nbsp; is the character U+00A0.
textContent(text) ==
  IF text = <<>> THEN <<>>
  ELSE IF /\ Len(text) >= 2
          /\ text[1] = "&"
          /\ \E k \in 1..Len(Entities) : Entities[k][1] = text[2]
       THEN LET k == CHOOSE j \in 1..Len(Entities) : Entities[j][1] = text[2]
            IN <<IF text[2] = "nbsp;" THEN "U+00A0" ELSE Entities[k][2]>>
               \o textContent(SubSeq(text, 3, Len(text)))
       ELSE <<text[1]>> \o textContent(Tail(text))

\* A highlight marker kept whatever its text.
KeptAlways(content) == TRUE

\* part_000 line 558, part_001 line 35, kindle.content.ts line 198:
\* if (content && content.length > 0), if (!content) return.
Kept(content) == content # <<>>

\* part_000 lines 556-560: the text between the tags of one highlight
\* marker, trimmed and decoded.
HtmlContent(text) == decodeHtmlEntities(TrimText(text))

\* part_001 line 34, kindle.content.ts line 197: el.textContent?.trim()
DomContent(text) == TrimText(textContent(text))

InitText ==
  /\ InitSync
  /\ \E text \in MarkupTexts :
       call = [pc |-> "markup", text |-> text, by |-> "none",
               out |-> <<>>, highlights |-> <<>>]

\* part_000 line 546: a text of the page is decoded.
DecodeText ==
  /\ call.pc = "markup"
  /\ call' = [call EXCEPT !.pc = "decoded", !.by = "decodeHtmlEntities",
                          !.out = decodeHtmlEntities(call.text)]
  /\ UNCHANGED syncVars

\* part_000 lines 556-561: the text is that of a highlight marker.
HtmlMarker ==
  /\ call.pc = "markup"
  /\ call' = [call EXCEPT
        !.pc = "extracted", !.by = "extractHighlightsFromHtml",
        !.highlights = IF Kept(HtmlContent(call.text))
                       THEN <<HtmlContent(call.text)>> ELSE <<>>]
  /\ UNCHANGED syncVars

\* part_001 lines 33-36: the same marker in the offscreen document.
DomMarker ==
  /\ call.pc = "markup"
  /\ call' = [call EXCEPT
        !.pc = "extracted", !.by = "extractHighlightsFromDOM",
        !.highlights = IF Kept(DomContent(call.text))
                       THEN <<DomContent(call.text)>> ELSE <<>>]
  /\ UNCHANGED syncVars

\* kindle.content.ts lines 196-198: the same marker in the tab.
CurrentMarker ==
  /\ call.pc = "markup"
  /\ call' = [call EXCEPT
        !.pc = "extracted", !.by = "extractCurrentHighlights",
        !.highlights = IF Kept(DomContent(call.text))
                       THEN <<DomContent(call.text)>> ELSE <<>>]
  /\ UNCHANGED syncVars

NextText ==
  \/ DecodeText
  \/ HtmlMarker
  \/ DomMarker
  \/ CurrentMarker

SpecText == InitText /\ [][NextText]_vars

\* ------------------------------------------------- the highlight header
\* The most pieces a header text is given.
MaxHeader == 4

\* The pieces a header text is written with: "1" is a run of digits,
\* "Yellow" a run of letters, "Location:" and "Page:" the words with their
\* colon.
HeaderChars == {"Location:", "Page:", " ", "1", ",", "-", "Yellow", "highlight"}

HeaderTexts == UNION {[1..n -> HeaderChars] : n \in 0..MaxHeader}

\* \d of a pattern.
Digits == {"1"}

\* [\d,] of a pattern.
DigitsAndCommas == {"1", ","}

\* \w of a pattern: the pieces made of letters, digits and underscores only.
WordChars == {"1", "Yellow", "highlight"}

\* No match, and the null of a field.
Null == <<>>

RECURSIVE RunEnd(_, _, _)
\* The position after the longest run of pieces of the set that starts at
\* position q: what a greedy class+ or class* consumes.
RunEnd(text, q, set) ==
  IF q <= Len(text) /\ text[q] \in set THEN RunEnd(text, q + 1, set) ELSE q

\* The capture of key\s*(class+(?:-class+)?) matched at position p, the
\* range part only where the pattern has it; Null if it does not match
\* there.
CaptureAt(text, p, key, class, range) ==
  IF text[p] # key THEN Null
  ELSE LET q == RunEnd(text, p + 1, Whitespace)
           e == RunEnd(text, q, class)
           f == RunEnd(text, e + 1, class)
       IN IF e = q THEN Null
          ELSE IF range /\ e <= Len(text) /\ text[e] = "-" /\ f > e + 1
               THEN SubSeq(text, q, f - 1)
               ELSE SubSeq(text, q, e - 1)

\* text.match(pattern): the capture of the leftmost match; Null without one.
Capture(text, key, class, range) ==
  LET at == {p \in 1..Len(text) : CaptureAt(text, p, key, class, range) # Null}
  IN IF at = {} THEN Null
     ELSE CaptureAt(text, CHOOSE p \in at : \A o \in at : p <= o,
                    key, class, range)

\* part_000 line 583, part_001 line 39, kindle.content.ts line 228:
\* header.match(/^(\w+)\s+highlight/i)
ColorOf(header) ==
  LET e == RunEnd(header, 1, WordChars)
      f == RunEnd(header, e, Whitespace)
  IN IF e > 1 /\ f > e /\ f <= Len(header) /\ header[f] = "highlight"
     THEN SubSeq(header, 1, e - 1)
     ELSE Null

\* part_000 line 582: header.match(/Location:\s*(\d+(?:-\d+)?)/i)
HtmlLocation(header) == Capture(header, "Location:", Digits, TRUE)

\* part_001 line 38: header.match(/Location:\s*(\d+)/i)
DomLocation(header) == Capture(header, "Location:", Digits, FALSE)

\* kindle.content.ts lines 218-219:
\* headerText.match(/Location:[\s\u00A0]*([\d,]+(?:-[\d,]+)?)/i) ||
\* headerText.match(/Page:[\s\u00A0]*([\d,]+)/i)
CurrentLocation(header) ==
  IF Capture(header, "Location:", DigitsAndCommas, TRUE) # Null
  THEN Capture(header, "Location:", DigitsAndCommas, TRUE)
  ELSE Capture(header, "Page:", DigitsAndCommas, FALSE)

\* part_000 lines 571 and 581, part_001 line 37, kindle.content.ts line 207:
\* the header text reaches the patterns trimmed.
InitHeader ==
  /\ InitSync
  /\ \E text \in HeaderTexts :
       call = [pc |-> "header", header |-> TrimText(text), by |-> "none",
               location |-> Null, color |-> Null]

\* part_000 lines 581-591.
HtmlHeader ==
  /\ call.pc = "header"
  /\ call' = [call EXCEPT !.pc = "parsed", !.by = "extractHighlightsFromHtml",
                          !.location = HtmlLocation(call.header),
                          !.color = ColorOf(call.header)]
  /\ UNCHANGED syncVars

\* part_001 lines 37-39 and 46-47.
DomHeader ==
  /\ call.pc = "header"
  /\ call' = [call EXCEPT !.pc = "parsed", !.by = "extractHighlightsFromDOM",
                          !.location = DomLocation(call.header),
                          !.color = ColorOf(call.header)]
  /\ UNCHANGED syncVars

\* kindle.content.ts lines 217-236.
CurrentHeader ==
  /\ call.pc = "header"
  /\ call' = [call EXCEPT !.pc = "parsed", !.by = "extractCurrentHighlights",
                          !.location = CurrentLocation(call.header),
                          !.color = ColorOf(call.header)]
  /\ UNCHANGED syncVars

NextHeader ==
  \/ HtmlHeader
  \/ DomHeader
  \/ CurrentHeader

SpecHeader == InitHeader /\ [][NextHeader]_vars

\* ------------------------------ KindleScraper.scrapeHighlights in detail
\* What the landing panel of the notebook page shows: the title (absent,
\* the generic 'Your Notes and Highlights', or a book's), the author and
\* the asin input.
Panels ==
  [title : {"absent", "Your Notes", "panel title"},
   author : {"absent", "panel author"},
   asin : {"absent", "panel asin"}]

\* part_000 lines 504-528: the books of the sidebar with their metadata;
\* the title and the author of the book at position k of the page are
\* written <<"title", k>> and <<"author", k>>.
ListedBooks(source) ==
  LET at == SelectSeq([k \in 1..Len(source) |-> k],
                      LAMBDA k : source[k] # "")
  IN [j \in 1..Len(at) |->
        [asin |-> source[at[j]], title |-> <<"title", at[j]>>,
         author |-> <<"author", at[j]>>]]

\* The last book of the sidebar in place of the first.
LastListed(bookList) == bookList[Len(bookList)]

\* part_000 lines 445-449: bookList[0].
FirstListed(bookList) == bookList[1]

\* part_000 lines 452-466: the metadata scraped from the landing panel.
FromPanel(panel) ==
  [asin |-> IF panel.asin = "absent" THEN "" ELSE panel.asin,
   title |-> IF panel.title \in {"absent", "Your Notes"}
             THEN "Unknown Title" ELSE panel.title,
   author |-> IF panel.author = "absent" THEN "null" ELSE panel.author]

\* part_000 lines 431-479: h highlights were extracted from the page.
LegacyResult(bookList, panel, h) ==
  IF h = 0 THEN <<>>
  ELSE LET of == IF Len(bookList) > 0 THEN FirstListed(bookList)
                 ELSE FromPanel(panel)
       IN <<[asin |-> of.asin, title |-> of.title, author |-> of.author,
             highlights |-> h]>>

InitLegacy ==
  /\ InitSync
  /\ \E source \in Sources, panel \in Panels, h \in 0..MaxHl :
       call = [pc |-> "login", source |-> source, panel |-> panel,
               hl |-> h, threw |-> "none", result |-> <<>>]

\* part_000 lines 414-417: the login check.
LegacyCheck ==
  /\ call.pc = "login"
  /\ \E isLoggedIn \in BOOLEAN :
       call' = IF LoginGate(isLoggedIn)
               THEN [call EXCEPT !.pc = "page"]
               ELSE [call EXCEPT !.pc = "threw", !.threw = "LOGIN_REQUIRED"]
  /\ UNCHANGED syncVars

\* part_000 lines 419-479: the page is fetched, the books are listed, the
\* highlights are extracted once, the result is returned.
LegacyScrape ==
  /\ call.pc = "page"
  /\ call' = [call EXCEPT
        !.pc = "returned",
        !.result = LegacyResult(ListedBooks(call.source), call.panel,
                                call.hl)]
  /\ UNCHANGED syncVars

NextLegacy ==
  \/ LegacyCheck
  \/ LegacyScrape

SpecLegacy == InitLegacy /\ [][NextLegacy]_vars

\* ------------------------------------- the per-book loops, await by await
\* The loops that take the books one by one: the per-book requests of the
\* background (part_000 lines 367-403) and of the offscreen document
\* (part_001 lines 134-166), the activations of the content script
\* (kindle.content.ts lines 308-392), the submissions (part_000 lines
\* 628-663).
FetchLoops == {"scrapeAllBooksViaFetch", "syncLibraryFromPage"}

Loops == FetchLoops \cup {"syncAllBooks", "submitHighlightsToLektr"}

\* What the awaited operation of a book comes to: the request or the
\* submission answers OK or not OK or throws; the settle wait of an
\* activated book resolves true ("ok") or times out.
Outcomes(loop) ==
  IF loop = "syncAllBooks" THEN {"ok", "timeout"}
  ELSE {"ok", "not ok", "throws"}

\* The loop going on to the next book without awaiting the operation of
\* the book before.
StartsWithoutAwait(pc) == pc \in {"loop", "awaiting"}

\* await: the loop reaches the next book only when the awaited operation
\* of the book before has settled and the turn of the loop is over.
Starts(pc) == pc = "loop"

InitTurns ==
  /\ InitSync
  /\ \E loop \in Loops, n \in 1..MaxBooks :
       \E outcome \in [1..n -> Outcomes(loop)] :
         call = [pc |-> "loop",
                 loop |-> loop,
                 bookList |-> n,
                 outcome |-> outcome,
                 retried |-> FALSE,
                 \* history, read only by the properties
                 started |-> <<>>,     \* books whose operation was started
                 inFlight |-> {},      \* books whose operation has not settled
                 finished |-> {},      \* books whose turn of the loop is over
                 delayed |-> FALSE,    \* a delay has run since the last start
                 gaps |-> <<>>]        \* delayed, at each start but the first

\* part_000 lines 372-375 and 632-649, part_001 lines 143-145,
\* kindle.content.ts lines 326-349: the operation of the next book is
\* started and awaited.
TurnStart ==
  /\ Starts(call.pc)
  /\ Len(call.started) < call.bookList
  /\ LET book == Len(call.started) + 1
     IN call' = [call EXCEPT
           !.pc = "awaiting",
           !.retried = FALSE,
           !.started = Append(@, book),
           !.inFlight = @ \cup {book},
           !.delayed = FALSE,
           !.gaps = IF book = 1 THEN @ ELSE Append(@, call.delayed)]
  /\ UNCHANGED syncVars

\* kindle.content.ts lines 351-364: the first settle wait timed out; the
\* book is clicked again and a second wait is awaited.
TurnRetry ==
  /\ call.pc = "awaiting"
  /\ call.loop = "syncAllBooks"
  /\ ~call.retried
  /\ \E book \in call.inFlight :
       /\ call.outcome[book] = "timeout"
       /\ call' = [call EXCEPT !.retried = TRUE]
  /\ UNCHANGED syncVars

\* The awaited operation settles.  part_000 lines 377-380 and 400-402,
\* part_001 lines 147 and 163-165: a non-OK response ('continue') and a
\* thrown error (catch) end the turn at once; part_000 lines 651-662: so
\* does every answer to a submission; otherwise the turn goes on to its
\* delay (part_000 line 398, part_001 line 161, kindle.content.ts lines
\* 369 and 391).
TurnSettle ==
  /\ call.pc = "awaiting"
  /\ \E book \in call.inFlight :
       /\ call.outcome[book] = "timeout" => call.retried
       /\ IF \/ call.loop = "submitHighlightsToLektr"
             \/ call.outcome[book] \in {"not ok", "throws"}
          THEN call' = [call EXCEPT !.pc = "loop",
                                    !.inFlight = @ \ {book},
                                    !.finished = @ \cup {book}]
          ELSE call' = [call EXCEPT !.pc = "delay",
                                    !.inFlight = @ \ {book}]
  /\ UNCHANGED syncVars

\* part_000 line 398, part_001 line 161, kindle.content.ts line 391: the
\* delay at the end of the turn has run.
TurnDelay ==
  /\ call.pc = "delay"
  /\ call' = [call EXCEPT !.pc = "loop",
                          !.delayed = TRUE,
                          !.finished = @ \cup {call.started[Len(call.started)]}]
  /\ UNCHANGED syncVars

\* part_000 lines 405-406 and 665-669, part_001 lines 171-174,
\* kindle.content.ts lines 394-395: the loop is over.
TurnsReturn ==
  /\ call.pc = "loop"
  /\ Len(call.started) = call.bookList
  /\ call' = [call EXCEPT !.pc = "returned"]
  /\ UNCHANGED syncVars

NextTurns ==
  \/ TurnStart
  \/ TurnRetry
  \/ TurnSettle
  \/ TurnDelay
  \/ TurnsReturn

SpecTurns == InitTurns /\ [][NextTurns]_vars

\* ------------------------------------------ KindleScraper.checkLoginStatus
\* What fetch resolves to: the fields of the response the function reads;
\* signin says that response.url contains 'signin'.
Responses == [redirected : BOOLEAN, signin : BOOLEAN, ok : BOOLEAN]

\* Line 324 without its test of the url.
RedirectedAnywhere(response) == response.redirected

\* Line 324: response.redirected && response.url.includes('signin')
RedirectedToSignin(response) == response.redirected /\ response.signin

\* Lines 317-330: the value returned when the domain has been read; the
\* request "fails" when fetch rejects.
checkLoginStatus(request, response) ==
  IF request = "fails" THEN FALSE
  ELSE IF RedirectedToSignin(response) THEN FALSE
  ELSE response.ok

InitLogin ==
  /\ InitSync
  /\ \E storageRead \in {"resolves", "rejects"},
        request \in {"answered", "fails"}, response \in Responses :
       call = [pc |-> "domain", storageRead |-> storageRead,
               request |-> request, response |-> response,
               value |-> FALSE, threw |-> FALSE]

\* Line 316 (and lines 310-313): the preferred domain is read from storage,
\* outside the try block.
LoginDomain ==
  /\ call.pc = "domain"
  /\ call' = IF call.storageRead = "resolves"
             THEN [call EXCEPT !.pc = "fetch"]
             ELSE [call EXCEPT !.pc = "threw", !.threw = TRUE]
  /\ UNCHANGED syncVars

\* Lines 317-330: the request is made and the answer is returned.
LoginFetch ==
  /\ call.pc = "fetch"
  /\ call' = [call EXCEPT
        !.pc = "returned",
        !.value = checkLoginStatus(call.request, call.response)]
  /\ UNCHANGED syncVars

NextLogin ==
  \/ LoginDomain
  \/ LoginFetch

SpecLogin == InitLogin /\ [][NextLogin]_vars

\* --------------------------------------- KindleScraper.getPreferredDomain
\* popup/App.tsx lines 343-347: regions the popup offers.
Domains == {"read.amazon.com", "read.amazon.co.uk", "read.amazon.de"}

\* What storage.getItem resolves to when 'local:amazonDomain' was never
\* written (null, which line 312 treats like the empty string).
NoDomain == ""

\* How many times the popup's region selector is changed during one call.
MaxChanges == 1

\* Lines 310-313: domain || 'read.amazon.com'
getPreferredDomain(amazonDomain) ==
  IF amazonDomain # NoDomain THEN amazonDomain ELSE "read.amazon.com"

\* One call of scrapeAllBooksViaFetch (lines 338-407) or of scrapeHighlights
\* (lines 413-480): amazonDomain is the stored setting, domain the local
\* constant of the function that is running, requests the hosts of the
\* requests made so far, in order.
InitDomain ==
  /\ InitSync
  /\ \E strategy \in {PerAsin, Legacy}, amazonDomain \in Domains \cup {NoDomain},
        isLoggedIn \in BOOLEAN, bookList \in 0..MaxBooks :
       call = [pc |-> "login domain", strategy |-> strategy,
               amazonDomain |-> amazonDomain, isLoggedIn |-> isLoggedIn,
               bookList |-> bookList, domain |-> NoDomain,
               requests |-> <<>>, changes |-> 0]

\* popup/App.tsx lines 108-111, handleAmazonDomainChange: the popup writes
\* the selected region to storage, at any time.
handleAmazonDomainChange ==
  /\ call.pc \notin {"returned", "threw"}
  /\ call.changes < MaxChanges
  /\ \E value \in Domains \ {call.amazonDomain} :
       call' = [call EXCEPT !.amazonDomain = value, !.changes = @ + 1]
  /\ UNCHANGED syncVars

\* Line 316: checkLoginStatus reads the preferred domain.
DomainOfLogin ==
  /\ call.pc = "login domain"
  /\ call' = [call EXCEPT !.pc = "login request",
                          !.domain = getPreferredDomain(call.amazonDomain)]
  /\ UNCHANGED syncVars

\* Lines 317-330 and 339-342 (415-417): the login request is made; when the
\* check gives false the strategy throws LOGIN_REQUIRED.
DomainLoginRequest ==
  /\ call.pc = "login request"
  /\ call' = [call EXCEPT
        !.pc = IF call.isLoggedIn THEN "domain" ELSE "threw",
        !.domain = NoDomain,
        !.requests = Append(@, call.domain)]
  /\ UNCHANGED syncVars

\* Line 344 (419): the strategy reads the preferred domain itself.
DomainOfStrategy ==
  /\ call.pc = "domain"
  /\ call' = [call EXCEPT !.pc = "main request",
                          !.domain = getPreferredDomain(call.amazonDomain)]
  /\ UNCHANGED syncVars

\* Lines 348-351 (422-425): the request for the notebook page.
DomainMainRequest ==
  /\ call.pc = "main request"
  /\ call' = [call EXCEPT
        !.pc = IF call.strategy = PerAsin THEN "books" ELSE "returned",
        !.requests = Append(@, call.domain)]
  /\ UNCHANGED syncVars

\* Lines 368-376: the request for the next book of the list.
DomainBookRequest ==
  /\ call.pc = "books"
  /\ Len(call.requests) < 2 + call.bookList
  /\ call' = [call EXCEPT !.requests = Append(@, call.domain)]
  /\ UNCHANGED syncVars

\* Lines 405-406: the loop is over.
DomainReturn ==
  /\ call.pc = "books"
  /\ Len(call.requests) = 2 + call.bookList
  /\ call' = [call EXCEPT !.pc = "returned"]
  /\ UNCHANGED syncVars

NextDomain ==
  \/ handleAmazonDomainChange
  \/ DomainOfLogin
  \/ DomainLoginRequest
  \/ DomainOfStrategy
  \/ DomainMainRequest
  \/ DomainBookRequest
  \/ DomainReturn

SpecDomain == InitDomain /\ [][NextDomain]_vars

\* ------------------------ onMessage SYNC_ALL_BOOKS (content script)
\* Lines 26 and 31 without the call.
sendNothing(responses) == responses

\* Lines 26 and 31: sendResponse(...), counted.
sendResponse(responses) == responses + 1

\* kindle.content.ts lines 16-19: a SYNC_ALL_BOOKS message has arrived; the
\* record is that of syncAllBooks (see InitSab) with the number of
\* sendResponse calls and what the promise of syncAllBooks came to.
InitAnswer ==
  /\ InitSync
  /\ call = [pc |-> "received", bookList |-> 0, i |-> 1, allBooks |-> <<>>,
             target |-> "none",
             response |-> SabResponse(FALSE, <<>>, "none"),
             clicks |-> 0, waits |-> 0, timedOut |-> 0, extracted |-> FALSE,
             checks |-> 0, sawCancel |-> FALSE, dom |-> 0, domAtCancel |-> 0,
             responses |-> 0, rejected |-> FALSE, container |-> FALSE]

\* Lines 19-24: the flag is reset and syncAllBooks is called.
AnswerReceive ==
  /\ call.pc = "received"
  /\ cancelSync' = FALSE
  /\ call' = [call EXCEPT !.pc = "list"]
  /\ UNCHANGED <<run, isSyncing, lastSyncTime, tabOpen, stopPending>>

\* Lines 37-42: STOP_SYNC arrives while the sidebar is being listed.
AnswerStopSync ==
  /\ call.pc = "list"
  /\ ~cancelSync
  /\ cancelSync' = TRUE
  /\ UNCHANGED <<call, run, isSyncing, lastSyncTime, tabOpen, stopPending>>

\* Lines 298-306, 396-399 and 154-185: getBookListFromSidebar scrolls the
\* sidebar if it finds the scroll container (a bounded loop, lines 74-149)
\* and lists n books.  Without books the result is success = false; an
\* exception is caught at line 396, and if the value thrown is null or
\* undefined, err.message of line 398 throws in turn and the promise of
\* syncAllBooks is rejected.
AnswerList ==
  /\ call.pc = "list"
  /\ \E container \in BOOLEAN, n \in 0..MaxBooks,
        thrown \in {"nothing", "Error", "null"} :
       call' =
         IF thrown = "null"
         THEN [call EXCEPT !.pc = "returned", !.rejected = TRUE,
                           !.container = container]
         ELSE IF thrown = "Error"
         THEN [call EXCEPT
                 !.pc = "returned", !.container = container,
                 !.response = SabResponse(FALSE, <<>>, "exception")]
         ELSE IF n = 0
         THEN [call EXCEPT
                 !.pc = "returned", !.container = container,
                 !.response = SabResponse(FALSE, <<>>,
                                          "No books found in sidebar")]
         ELSE [call EXCEPT !.pc = "head", !.bookList = n,
                           !.container = container]
  /\ UNCHANGED syncVars

\* Lines 24-32: the promise of syncAllBooks is settled; then sends the
\* result, catch sends success = false with the error.
AnswerSend ==
  /\ call.pc = "returned"
  /\ call' = [call EXCEPT
        !.pc = "answered",
        !.responses = sendResponse(@),
        !.response = IF call.rejected
                     THEN SabResponse(FALSE, <<>>, "exception")
                     ELSE @]
  /\ UNCHANGED syncVars

\* The steps of the content script itself.
AnswerStep ==
  \/ AnswerReceive
  \/ AnswerList
  \/ SabHead
  \/ SabWait1
  \/ SabWait2
  \/ SabExtract
  \/ AnswerSend

NextAnswer ==
  \/ AnswerStep
  \/ AnswerStopSync
  \/ SabStopSync

\* The timers of the content script fire and its promises settle: the
\* scroll loop and the settle wait are bounded (lines 94, 134 and 280).
SpecAnswer == InitAnswer /\ [][NextAnswer]_vars /\ WF_vars(AnswerStep)

\* ------------------------- syncAllBooks and the page it drives
\* What the annotations pane shows for one book: highlights with signature
\* "a" or "b" (getHighlightsSignature, lines 247-253), or no highlights and
\* the marker .kp-notebook-annotations-no-notes.
Panes == {"a", "b", "no notes"}

\* The signature of what the pane shows; book 0 is the pane before any book
\* was rendered: no highlights and no marker.
PaneSignature(books, shown) ==
  IF shown = 0 \/ books[shown] = "no notes" THEN "" ELSE books[shown]

\* Line 272: document.querySelector('.kp-notebook-annotations-no-notes')
PaneMarker(books, shown) == shown # 0 /\ books[shown] = "no notes"

\* Lines 298-306: the sidebar lists the books 1..Len(books); the pane shows
\* one of them, or nothing yet.
InitRender ==
  /\ InitSync
  /\ \E books \in UNION {[1..n -> Panes] : n \in 1..MaxBooks} :
       \E shown \in 0..1 :
         call = [pc |-> "head", books |-> books, i |-> 1,
                 shown |-> shown, clicked |-> shown,
                 previousSignature |-> "",
                 allBooks |-> <<>>]

\* Lines 308-338 and 394-395: the loop head; the signature is taken and the
\* link of book i is clicked.
RenderClick ==
  /\ call.pc = "head"
  /\ call' = IF call.i > Len(call.books)
             THEN [call EXCEPT !.pc = "returned"]
             ELSE [call EXCEPT
                     !.pc = "wait1",
                     !.clicked = call.i,
                     !.previousSignature =
                        PaneSignature(call.books, call.shown)]
  /\ UNCHANGED syncVars

\* The page renders the annotations of the book clicked last, whenever its
\* request is answered.
RenderPage ==
  /\ call.pc \in {"wait1", "wait2", "extract"}
  /\ call.shown # call.clicked
  /\ call' = [call EXCEPT !.shown = call.clicked]
  /\ UNCHANGED syncVars

\* Lines 268-284 and 348-369: a settle wait resolves, with true when a poll
\* finds the pane changed or the marker present, with false when the
\* timeout has passed without that; after the first timeout the link is
\* clicked again.
RenderWait ==
  /\ call.pc \in {"wait1", "wait2"}
  /\ call' = IF Changed(PaneSignature(call.books, call.shown),
                        call.previousSignature,
                        PaneMarker(call.books, call.shown))
             THEN [call EXCEPT !.pc = "extract"]
             ELSE [call EXCEPT
                     !.pc = IF call.pc = "wait1" THEN "wait2" ELSE "extract"]
  /\ UNCHANGED syncVars

\* Lines 371-392: after 500 ms the highlights the pane shows are extracted
\* and stored with the asin of book i; of is the book they were rendered
\* for.
RenderExtract ==
  /\ call.pc = "extract"
  /\ call' = [call EXCEPT
        !.pc = "head",
        !.i = @ + 1,
        !.allBooks = IF PaneSignature(call.books, call.shown) # ""
                     THEN Append(@, [asin |-> call.i, of |-> call.shown])
                     ELSE @]
  /\ UNCHANGED syncVars

NextRender ==
  \/ RenderClick
  \/ RenderPage
  \/ RenderWait
  \/ RenderExtract

SpecRender == InitRender /\ [][NextRender]_vars

\* ------------------------------- STOP_SYNC during a manual run
\* The Live-DOM phase of a run, up to its last per-book read of cancelSync:
\* syncViaContentScript (lines 710-800) until the content script has read
\* the flag for the last book of its list (kindle.content.ts line 310).
LiveDomPhase(rec) ==
  \/ rec.pc \in {"cs_query", "cs_create", "cs_reload", "cs_wait_created",
                 "cs_wait_reloaded", "cs_send", "sab_list"}
  \/ rec.pc = "sab_loop" /\ rec.i <= rec.bookList

\* call records when STOP_SYNC reached the background: during the Live-DOM
\* phase of the manual run, or before that run was started.
InitStop ==
  /\ InitSync
  /\ call = [stopped |-> FALSE, early |-> FALSE]

\* Lines 1011-1025 and kindle.content.ts lines 37-42: STOP_SYNC reaches the
\* background, which forwards it to the Kindle tabs it finds; the content
\* script of an open tab sets cancelSync.
StopSync ==
  /\ cancelSync' = IF tabOpen THEN TRUE ELSE cancelSync
  /\ call' = [call EXCEPT
        !.stopped = @ \/ LiveDomPhase(run["manual"]),
        !.early = @ \/ run["manual"].pc = "idle"]
  /\ UNCHANGED <<run, isSyncing, lastSyncTime, tabOpen, stopPending>>

NextStop ==
  \/ PopupSyncNow("manual")
  \/ StopSync
  \/ WaitForTabLoad("manual")
  \/ TabCloseRejects("manual")
  \/ RunStep("manual")

SpecStop == InitStop /\ [][NextStop]_vars

\* ------------------------------- syncViaContentScript, the tab loop
MaxTabs == 2      \* Kindle notebook tabs found by tabs.query

\* What a tab comes to when SYNC_ALL_BOOKS is sent to it: a response with
\* success and books, the same with the error 'Sync cancelled by user', a
\* response with success = false and an error, a rejected sendMessage (no
\* content script in the tab); "no id" is a tab without id, which is passed
\* over (line 774).
TabAnswers == {"success", "cancelled", "error", "rejects", "no id"}

\* Line 781 with any response taken for a result.
AnyResponse(answer) == answer \in {"success", "cancelled", "error"}

\* Line 781: if (response?.success && response.books)
SuccessWithBooks(answer) == answer \in {"success", "cancelled"}

\* Lines 760-763, 794-799: return null.
NullValue == [null |-> TRUE, tab |-> 0, cancelled |-> FALSE]

\* Lines 710-717: the call starts.  found are the tabs the first query
\* finds, created what the second query finds after a create (nothing when
\* the new tab shows a sign-in page), rejects names the browser call that
\* rejects.
InitTabs ==
  /\ InitSync
  /\ \E found \in UNION {[1..n -> TabAnswers] : n \in 0..MaxTabs},
        created \in UNION {[1..n -> TabAnswers] : n \in 0..1},
        rejects \in {"nothing", "tabs.query", "tabs.create", "tabs.reload"} :
       call = [pc |-> "query", found |-> found, created |-> created,
               rejects |-> rejects, tabs |-> <<>>, k |-> 1,
               sent |-> <<>>, value |-> NullValue,
               books |-> "none", wasCancelled |-> FALSE, fallBack |-> FALSE]

\* Lines 715-720 and 796-799: the first query; a rejection is caught and
\* null is returned.
TabsQuery ==
  /\ call.pc = "query"
  /\ call' = IF call.rejects = "tabs.query"
             THEN [call EXCEPT !.pc = "returned", !.value = NullValue]
             ELSE [call EXCEPT
                     !.pc = IF Len(call.found) = 0 THEN "create"
                            ELSE "reload",
                     !.tabs = call.found]
  /\ UNCHANGED syncVars

\* Lines 720-748: no tab found: one is created and awaited, the tabs are
\* queried again.
TabsCreate ==
  /\ call.pc = "create"
  /\ call' = IF call.rejects = "tabs.create"
             THEN [call EXCEPT !.pc = "returned", !.value = NullValue]
             ELSE [call EXCEPT !.pc = "loop", !.tabs = call.created]
  /\ UNCHANGED syncVars

\* Lines 749-758: the first tab found is reloaded and awaited.
TabsReload ==
  /\ call.pc = "reload"
  /\ call' = IF call.rejects = "tabs.reload" /\ call.tabs[1] # "no id"
             THEN [call EXCEPT !.pc = "returned", !.value = NullValue]
             ELSE [call EXCEPT !.pc = "loop"]
  /\ UNCHANGED syncVars

\* Lines 760-795: without tabs null is returned; else one turn of the loop:
\* the message is sent to tab k and its answer awaited; a result is
\* returned, anything else leads to the next tab, the end of the list to
\* null.
TabsSend ==
  /\ call.pc = "loop"
  /\ call' =
       IF call.k > Len(call.tabs)
       THEN [call EXCEPT !.pc = "returned", !.value = NullValue]
       ELSE IF call.tabs[call.k] = "no id"
       THEN [call EXCEPT !.k = @ + 1]
       ELSE IF SuccessWithBooks(call.tabs[call.k])
       THEN [call EXCEPT
               !.pc = "returned",
               !.sent = Append(@, call.k),
               !.value = [null |-> FALSE, tab |-> call.k,
                          cancelled |-> CancelledOf(
                             IF call.tabs[call.k] = "cancelled"
                             THEN "Sync cancelled by user" ELSE "none")]]
       ELSE [call EXCEPT !.k = @ + 1, !.sent = Append(@, call.k)]
  /\ UNCHANGED syncVars

\* Lines 816-831 of syncKindleLibrary: what the orchestrator makes of the
\* value; the books of a tab stand for a list that may be empty.
TabsOrchestrate ==
  /\ call.pc = "returned"
  /\ \E empty \in BOOLEAN :
       LET result == ~call.value.null
           wasCancelled == result /\ call.value.cancelled
           books == IF result /\ (wasCancelled \/ ~empty)
                    THEN IF empty THEN "empty" ELSE "of tab"
                    ELSE "empty"
       IN call' = [call EXCEPT
             !.pc = "orchestrated",
             !.books = books,
             !.wasCancelled = wasCancelled,
             !.fallBack = books = "empty" /\ ~wasCancelled]
  /\ UNCHANGED syncVars

NextTabs ==
  \/ TabsQuery
  \/ TabsCreate
  \/ TabsReload
  \/ TabsSend
  \/ TabsOrchestrate

SpecTabs == InitTabs /\ [][NextTabs]_vars

\* ------------------------------------------ updateSyncAlarm (background)
MaxUpdates == 2   \* calls of updateSyncAlarm
MaxInterval == 2  \* the longest interval, in minutes

\* No alarm named 'kindleSync' exists; else alarm is its period.  The
\* alarms of the browser are kept by name, so that a create replaces an
\* alarm of the same name.
NoAlarm == 0

\* part_000 lines 977-978: the background has started, no call of
\* updateSyncAlarm was made yet.  stored is local:autoSyncInterval, calls
\* the calls made so far in their order, each with its argument, its
\* caller and its position.
InitAlarm ==
  /\ InitSync
  /\ \E alarm \in 0..MaxInterval :
       call = [alarm |-> alarm, stored |-> alarm, calls |-> <<>>]

\* Lines 979-980: updateSyncAlarm(intervalMinutes) is called and calls
\* alarms.clear, which the browser carries out.
AlarmClear(c, intervalMinutes, by) ==
  [c EXCEPT !.alarm = NoAlarm,
            !.calls = Append(@, [intervalMinutes |-> intervalMinutes,
                                 by |-> by, pc |-> "clear"])]

\* popup/App.tsx lines 113-118 and part_000 lines 1027-1031: the popup
\* stores the interval chosen and sends UPDATE_AUTO_SYNC, which is handled.
UpdateAutoSync ==
  /\ Len(call.calls) < MaxUpdates
  /\ \E interval \in 0..MaxInterval :
       call' = AlarmClear([call EXCEPT !.stored = interval], interval,
                          "UPDATE_AUTO_SYNC")
  /\ UNCHANGED syncVars

\* Lines 991-995: the install event; the interval is read from storage.
OnInstalled ==
  /\ Len(call.calls) < MaxUpdates
  /\ call' = AlarmClear(call, call.stored, "onInstalled")
  /\ UNCHANGED syncVars

\* Lines 980-988: the promise of alarms.clear is settled and call k goes on:
\* an interval above 0 creates the alarm.
AlarmCreate ==
  /\ \E k \in 1..Len(call.calls) :
       /\ call.calls[k].pc = "clear"
       /\ call' = [call EXCEPT
             !.calls[k].pc = "done",
             !.alarm = IF call.calls[k].intervalMinutes > 0
                       THEN call.calls[k].intervalMinutes
                       ELSE @]
  /\ UNCHANGED syncVars

NextAlarm ==
  \/ UpdateAutoSync
  \/ OnInstalled
  \/ AlarmCreate

SpecAlarm == InitAlarm /\ [][NextAlarm]_vars

\* ------------------------------- the toolbar of the web highlighter
MaxToolbars == 3  \* toolbars created by createShadowRootUi

\* popup/App.tsx lines 399-400: ui = null.
NoUi == 0

\* Lines 402-407, removeUi: the toolbar ui refers to is removed.
removeUi(c) ==
  IF c.ui # NoUi
  THEN [c EXCEPT !.mounted = @ \ {c.ui}, !.ui = NoUi]
  ELSE c

\* Lines 445-470, handleSelection up to its await: with an empty selection
\* the toolbar is removed; else the toolbar is removed and
\* createShadowRootUi is called, whose promise is pending.
handleSelection(c) ==
  IF ~c.selection
  THEN removeUi(c)
  ELSE [removeUi(c) EXCEPT !.created = @ + 1,
                           !.pending = @ \cup {c.created + 1}]

\* Lines 396-400: the content script has started.  selection says whether
\* the page has a non-empty selection, mounted are the toolbars in the
\* page, pending the calls of handleSelection waiting at line 470.
InitToolbar ==
  /\ InitSync
  /\ \E selection \in BOOLEAN :
       call = [ui |-> NoUi, selection |-> selection, mounted |-> {},
               pending |-> {}, created |-> 0]

\* The user selects text or drops the selection.
Select ==
  /\ call' = [call EXCEPT !.selection = ~@]
  /\ UNCHANGED syncVars

\* Lines 536-542: the timer armed by a selectionchange event fires.
SelectionTimer ==
  /\ ~call.selection \/ call.created < MaxToolbars
  /\ call' = handleSelection(call)
  /\ UNCHANGED syncVars

\* Lines 516-533 and 545-549: the timer armed by a scroll event fires,
\* updatePosition runs: without toolbar nothing happens; the toolbar is
\* removed when the selection is empty or its text has changed; else
\* handleSelection is called.
ScrollTimer ==
  /\ call.ui # NoUi
  /\ \E changed \in BOOLEAN :
       /\ ~call.selection \/ changed \/ call.created < MaxToolbars
       /\ call' = IF ~call.selection \/ changed
                  THEN removeUi(call)
                  ELSE handleSelection(call)
  /\ UNCHANGED syncVars

\* Line 552: the window is resized.
Resize ==
  /\ call.ui # NoUi
  /\ call' = removeUi(call)
  /\ UNCHANGED syncVars

\* Lines 481-502: a button of a mounted toolbar is clicked: removeUi, and
\* the selection is dropped.
ToolbarButton ==
  /\ call.mounted # {}
  /\ call' = [removeUi(call) EXCEPT !.selection = FALSE]
  /\ UNCHANGED syncVars

\* Lines 470-512: the promise of createShadowRootUi of one call is
\* settled: the toolbar is assigned to ui and mounted.
UiMount ==
  /\ \E id \in call.pending :
       call' = [call EXCEPT !.ui = id,
                            !.mounted = @ \cup {id},
                            !.pending = @ \ {id}]
  /\ UNCHANGED syncVars

NextToolbar ==
  \/ Select
  \/ SelectionTimer
  \/ ScrollTimer
  \/ Resize
  \/ ToolbarButton
  \/ UiMount

SpecToolbar == InitToolbar /\ [][NextToolbar]_vars

\* ================================================================ claims
Returned(r) == run[r].result.returned

\* C1: every run that returns has written isSyncing = true once on entry and
\* has written isSyncing = false exactly once, whatever the exit path.
C1_FlagClearedExactlyOnce ==
  \A r \in Runs :
    run[r].pc = "done" => run[r].setTrue = 1 /\ run[r].clears = 1

\* C2: at no time are two runs of syncKindleLibrary in progress together.
C2_NoTwoRunsInProgress ==
  \A r1, r2 \in Runs : Active(r1) /\ Active(r2) => r1 = r2

\* C3: once the Live-DOM strategy has reported cancellation, the run starts
\* neither the Per-ASIN fetch nor the Single-page legacy strategy and never
\* calls submitHighlightsToLektr, however many books had been collected.
C3_CancelledNoFallbackNoSubmit ==
  \A r \in Runs :
    run[r].cancelled =>
      /\ run[r].started = <<LiveDom>>
      /\ run[r].submits = 0
      /\ ~run[r].posted

\* C3 witness: a cancelled run that had collected a book has returned.
C3_Witness ==
  \E r \in Runs :
    run[r].cancelled /\ LiveDom \in run[r].gave /\ Returned(r)


\* C4: when the Live-DOM strategy returned cancelled = true, the SyncResult
\* of the run names the user's stop: success = false, error 'Sync
\* cancelled', booksProcessed = 0 and highlightsImported = 0.
C4_CancelledResult ==
  \A r \in Runs :
    run[r].cancelled /\ Returned(r) =>
      /\ run[r].result.success = FALSE
      /\ run[r].result.error = "Sync cancelled"
      /\ run[r].result.booksProcessed = 0
      /\ run[r].result.highlightsImported = 0

IsPrefix(s, t) == Len(s) <= Len(t) /\ \A k \in 1..Len(s) : s[k] = t[k]

\* The strategies of s that come before position k.
Earlier(s, k) == {s[j] : j \in 1..(k - 1)}

\* C5: a manual run starts its strategies in the order Live-DOM, Per-ASIN
\* fetch, Single-page legacy; a strategy is started only when every earlier
\* one has finished without a book and without cancellation.
C5_ManualStrategyOrder ==
  \A r \in Runs :
    run[r].useContentScript =>
      /\ IsPrefix(run[r].started, <<LiveDom, PerAsin, Legacy>>)
      /\ \A k \in 1..Len(run[r].started) :
           /\ Earlier(run[r].started, k) \subseteq run[r].finished
           /\ Earlier(run[r].started, k) \cap run[r].gave = {}
           /\ k > 1 => ~run[r].cancelled

\* C5 witness: a manual run has gone through all three strategies.
C5_Witness ==
  \E r \in Runs :
    /\ run[r].useContentScript
    /\ run[r].started = <<LiveDom, PerAsin, Legacy>>
    /\ Returned(r)

\* C6: a scheduled run attempts the Per-ASIN fetch strategy only: it issues
\* no tab query, create, reload or remove, sends no SYNC_ALL_BOOKS, and does
\* not start the Single-page legacy strategy even when the fetch is empty.
C6_ScheduledFetchOnly ==
  \A r \in Runs :
    run[r].pc # "idle" /\ ~run[r].useContentScript =>
      /\ run[r].ops = {}
      /\ IsPrefix(run[r].started, <<PerAsin>>)

\* C6 witness: a scheduled run whose fetch strategy gave no book returned.
C6_Witness ==
  \E r \in Runs :
    /\ ~run[r].useContentScript
    /\ PerAsin \in run[r].finished /\ PerAsin \notin run[r].gave
    /\ Returned(r)

\* C7: a LOGIN_REQUIRED failure raised by scrapeAllBooksViaFetch or
\* scrapeHighlights reaches the caller as error 'LOGIN_REQUIRED', never as
\* a success.
C7_LoginRequiredSurfaces ==
  \A r \in Runs :
    (Returned(r) /\ \E s \in Strategies :
                      <<s, "LOGIN_REQUIRED">> \in run[r].threw) =>
      run[r].result.success = FALSE /\ run[r].result.error = "LOGIN_REQUIRED"

\* Strategy s made the login check first and went on only when logged in.
ChecksLoginFirst(r, s) ==
  /\ s \in run[r].scraped => <<s, TRUE>> \in run[r].checked
  /\ <<s, FALSE>> \in run[r].checked =>
       /\ s \notin run[r].scraped
       /\ s \in run[r].finished => <<s, "LOGIN_REQUIRED">> \in run[r].threw

\* C8 as claimed: every strategy, the Live-DOM strategy included, performs
\* the login check before any enumeration, selection, request or extraction.
C8_EveryStrategyChecksLogin ==
  \A r \in Runs : \A s \in Strategies : ChecksLoginFirst(r, s)

\* C8 as amended: the Per-ASIN fetch and the Single-page legacy strategies
\* perform the login check first and fail with LOGIN_REQUIRED before any
\* enumeration, request or extraction; the Live-DOM strategy performs no
\* login check.
C8_FetchStrategiesCheckLogin ==
  \A r \in Runs :
    /\ \A s \in {PerAsin, Legacy} : ChecksLoginFirst(r, s)
    /\ \A b \in BOOLEAN : <<LiveDom, b>> \notin run[r].checked

\* C8 witness: both fetch strategies met the sign-in redirect, and the
\* Live-DOM strategy had enumerated the sidebar before.
C8_Witness ==
  \E r \in Runs :
    /\ LiveDom \in run[r].scraped
    /\ <<PerAsin, FALSE>> \in run[r].checked
    /\ <<Legacy, FALSE>> \in run[r].checked
    /\ Returned(r)

\* Every strategy the run started has returned, with no book.
AllReturnedEmpty(r) ==
  /\ run[r].started # <<>>
  /\ \A k \in 1..Len(run[r].started) : run[r].started[k] \in run[r].finished
  /\ run[r].gave = {}
  /\ run[r].threw = {}

SuccessWithZeroCounts(r) ==
  /\ run[r].result.success = TRUE
  /\ run[r].result.booksProcessed = 0
  /\ run[r].result.highlightsImported = 0
  /\ run[r].result.error = "none"
  /\ run[r].submits = 0 /\ ~run[r].posted

C10_OneNotificationPerRun ==
  \A r \in Runs : run[r].pc = "done" => Len(run[r].notes) = 1

\* C11: every run that has been started eventually returns (Succeeded,
\* Cancelled or Failed); no wait inside the run keeps it Running forever.
C11_RunTerminates ==
  \A r \in Runs : (run[r].pc = "entry") ~> (run[r].pc = "done")

\* C12: scrollSidebarToLoadAllBooks returns whatever counts and spinner
\* states it observes; it scrolls at most 100 times and polls the spinner at
\* most 15 times in one iteration.
C12_ScrollLoopTerminates ==
  /\ [](call.scrolls <= 100 /\ call.spinnerChecks <= 15)
  /\ <>(call.pc = "returned")

\* C12 witness: the call has returned after 100 scrolls without the count
\* ever being stable, the last spinner wait having timed out.
C12_Witness ==
  /\ call.pc = "returned"
  /\ call.scrolls = 100
  /\ ~call.stoppedEarly
  /\ call.spinnerChecks = 15

\* The last three iterations observed the same non-zero count: the last two
\* of them found the count unchanged.
StableTwice(seen) ==
  /\ Len(seen) = 3
  /\ seen[1] = seen[2] /\ seen[2] = seen[3]
  /\ seen[3] > 0

\* C13: the loop stops early exactly at the first iteration that is the
\* second in a row to find the count unchanged and non-zero; one stable
\* iteration does not stop it, and a changed count resets the counter.
C13_StopsAfterTwoStableIterations ==
  /\ call.stoppedEarly => StableTwice(call.seen)
  /\ call.pc \in {"spinner", "settle"} =>
       /\ ~StableTwice(call.seen)
       /\ (Len(call.seen) >= 2 /\
           call.seen[Len(call.seen)] # call.seen[Len(call.seen) - 1])
            => call.sameCountIterations = 0

\* C13 witness: the loop was left early; an earlier count differed, so the
\* counter had been reset on the way.
C13_Witness ==
  /\ call.pc = "returned"
  /\ call.stoppedEarly
  /\ call.scrolls > 3

\* C14: waitForHighlightsToChange resolves exactly once: with true at the
\* first poll that sees a signature other than previousSignature or the 'no
\* highlights' marker, with false at the first poll that sees neither once
\* the timeout has elapsed; until then it stays pending.
C14_SettleWaitResolvesOnce ==
  /\ [](/\ call.resolves <= 1
        /\ call.pc = "resolved" =>
             /\ call.resolves = 1
             /\ call.value = call.sawChange
             /\ ~call.value => call.sawTimeout
        /\ call.pc = "waiting" => ~call.sawChange /\ ~call.sawTimeout)
  /\ <>(call.pc = "resolved")

\* C14 witness: the wait timed out after several polls that saw no change.
C14_Witness ==
  /\ call.pc = "resolved"
  /\ ~call.value
  /\ call.checks >= 2
  /\ call.timeout > 0

\* C15: for each book the click is issued at most twice, a second time if
\* and only if the first settle wait timed out; after a second timeout the
\* book is extracted, without an error and without a third click.
C15_SingleRetryClick ==
  /\ call.clicks <= 2
  /\ call.pc \in {"wait2", "extract"} =>
       (call.clicks = 2 <=> call.timedOut >= 1)
  /\ call.timedOut = 2 => call.pc = "extract" \/ call.extracted
                          \/ call.response.error = "exception"

\* C16: cancelSync is read once per book iteration, at its start; once it is
\* read set, syncAllBooks has returned the books collected so far with the
\* cancellation indicator, and no click, wait or extraction has followed.
C16_CancelStopsAtLoopHead ==
  /\ call.sawCancel =>
       /\ call.pc = "returned"
       /\ call.response.success
       /\ call.response.error = "Sync cancelled by user"
       /\ call.response.books = call.allBooks
       /\ call.dom = call.domAtCancel
  /\ call.pc \in {"wait1", "wait2", "extract"} => call.checks = call.i

\* C16 witness: the flag was set while a later book was under way; the call
\* returned with the book collected before.
C16_Witness ==
  /\ call.sawCancel
  /\ call.pc = "returned"
  /\ Len(call.response.books) >= 1
  /\ call.i <= call.bookList

RECURSIVE UpTo(_)
\* <<1, ..., n>>
UpTo(n) == IF n = 0 THEN <<>> ELSE Append(UpTo(n - 1), n)

\* The positions, in the book list, of the books of a list.
Asins(books) == [k \in 1..Len(books) |-> books[k].asin]

\* C17: a non-OK response or a thrown error for one book skips that book
\* only: every book of the list is requested, in order, and the list
\* returned holds exactly the books whose request succeeded and whose page
\* gave at least one highlight.
C17_FetchSkipsFailedBookOnly ==
  /\ call.requested = UpTo(call.i - 1)
  /\ call.pc = "returned" =>
       /\ call.requested = UpTo(call.bookList)
       /\ Asins(call.result) =
            SelectSeq(UpTo(call.bookList),
                      LAMBDA k : call.answers[k].outcome = "ok"
                                 /\ call.answers[k].hl > 0)
       /\ \A k \in 1..Len(call.result) :
            call.result[k].hl = call.answers[call.result[k].asin].hl
       /\ call.result =
            FetchLoop([k \in 1..call.bookList |->
                         AsResponse(call.answers[k])], call.bookList)

\* C17 witness: the first request failed, the second book was kept.
C17_Witness ==
  /\ call.pc = "returned"
  /\ call.bookList >= 2
  /\ call.answers[1].outcome # "ok"
  /\ Asins(call.result) = <<2>>

\* The positions are in the order of the book list.
Increasing(asins) ==
  \A j, k \in 1..Len(asins) : j < k => asins[j] < asins[k]

\* The answers of the Lektr API in which every submission succeeds, or
\* every submission fails.
UniformAnswers(books) ==
  {[k \in 1..Len(books) |-> [outcome |-> "ok", imported |-> books[k].hl]],
   [k \in 1..Len(books) |-> [outcome |-> "failed", imported |-> 0]]}

\* C18: the books a strategy collects and returns, the books handed to
\* submission and the POST requests made for them are in the order of the
\* source's book list.
C18_OrderPreserved ==
  \A r \in Runs :
    /\ Increasing(Asins(run[r].allBooks))
    /\ Increasing(Asins(run[r].contentScriptResult.books))
    /\ Increasing(Asins(run[r].books))
    /\ run[r].pc = "submit" =>
         \A resp \in UniformAnswers(run[r].books) :
           LET requests == SubmitLoop(run[r].books, resp,
                                      Len(run[r].books)).requests
           IN Increasing(requests) /\ requests = Asins(run[r].books)

\* C18 witness: runs are about to submit two books, one collected by the
\* Live-DOM strategy, one by the Per-ASIN fetch strategy.
C18_Witness ==
  /\ run["manual"].pc = "submit" /\ Len(run["manual"].books) >= 2
  /\ LiveDom \in run["manual"].gave
  /\ run["scheduled"].pc = "submit" /\ Len(run["scheduled"].books) >= 2

\* C19: no two books of an extraction result carry the same asin, also
\* when the source's book list repeats an identifier.
C19_AsinsUnique ==
  call.pc = "returned" =>
    \A j, k \in 1..Len(call.result) :
      call.result[j].asin = call.result[k].asin => j = k

\* C20: for every markup, also with empty highlight markers and with
\* differing numbers of highlight, header and note markers, there are as
\* many highlights as highlight markers, and the i-th highlight has the
\* header and the note of the i-th block, or null where the block has none.
C20_FieldsFromOwnBlock ==
  call.pc = "extracted" =>
    /\ Len(call.highlights) = Len(call.blocks)
    /\ \A i \in 1..Len(call.highlights) :
         /\ call.highlights[i].header = (IF call.blocks[i].header THEN i ELSE 0)
         /\ call.highlights[i].note = (IF call.blocks[i].note THEN i ELSE 0)

\* The text has no character other than whitespace.
Blank(text) == \A k \in 1..Len(text) : text[k] \in Whitespace

\* C21: every highlight an extractor produces has a content that is not
\* empty and is trimmed, and a highlight marker whose text is empty or
\* whitespace only produces no highlight.
C21_ContentNeverEmpty ==
  call.pc = "extracted" =>
    /\ \A k \in 1..Len(call.highlights) :
         LET content == call.highlights[k]
         IN /\ content # <<>>
            /\ ~Blank(content)
            /\ content[1] \notin Whitespace
            /\ content[Len(content)] \notin Whitespace
    /\ Blank(textContent(call.text)) => call.highlights = <<>>

\* C21 witness: a marker whose text is only spaces and &nbsp; entities was
\* discarded by the extractor of the fetched page.
C21_Witness ==
  /\ call.pc = "extracted"
  /\ call.by = "extractHighlightsFromHtml"
  /\ Len(call.text) >= 3
  /\ \E k \in 1..Len(call.text) : call.text[k] = "nbsp;"
  /\ Blank(textContent(call.text))
  /\ call.highlights = <<>>

RECURSIVE DecodedOnce(_)
\* Every entity of the text read once, from left to right, and replaced by
\* its character; the character put in place is not read again.
DecodedOnce(text) ==
  IF text = <<>> THEN <<>>
  ELSE IF /\ Len(text) >= 2
          /\ text[1] = "&"
          /\ \E k \in 1..Len(Entities) : Entities[k][1] = text[2]
       THEN LET k == CHOOSE j \in 1..Len(Entities) : Entities[j][1] = text[2]
            IN <<Entities[k][2]>> \o DecodedOnce(SubSeq(text, 3, Len(text)))
       ELSE <<text[1]>> \o DecodedOnce(Tail(text))

\* The text has no run of whitespace and no whitespace at its ends.
Normalized(text) ==
  /\ \A k \in 1..Len(text) - 1 :
       ~(text[k] \in Whitespace /\ text[k + 1] \in Whitespace)
  /\ text # <<>> => text[1] \notin Whitespace /\ text[Len(text)] \notin Whitespace

\* C24: decodeHtmlEntities replaces every entity by its character exactly
\* once, nothing being decoded twice, and its output has no run of
\* whitespace and no whitespace at its ends.
C24_DecodesOnceAndNormalizes ==
  call.by = "decodeHtmlEntities" =>
    /\ call.out = TrimText(CollapseSpaces(DecodedOnce(call.text)))
    /\ Normalized(call.out)

\* A digit group or a range of digit groups: ^\d+(,\d+)*(-\d+(,\d+)*)?$
WellFormed(value) ==
  /\ value # <<>>
  /\ \A k \in 1..Len(value) : value[k] \in {"1", ",", "-"}
  /\ value[1] = "1" /\ value[Len(value)] = "1"
  /\ \A k \in 1..Len(value) - 1 : value[k] # "1" => value[k + 1] = "1"
  /\ Cardinality({k \in 1..Len(value) : value[k] = "-"}) <= 1

\* The header is the key, any whitespace, and the value.
KeyThenValue(header, key, value) ==
  /\ header # <<>>
  /\ header[1] = key
  /\ LET q == RunEnd(header, 2, Whitespace)
     IN SubSeq(header, q, Len(header)) = value

\* C22: a header "Location:" followed by a digit group or range gives that
\* group or range as location; a header "Page:" followed by digits gives
\* them as location; a header that starts with a word, whitespace and
\* "highlight" gives the word as color; a header with neither "Location:"
\* nor "Page:" gives a null location, one without "highlight" a null color.
C22_HeaderParsing ==
  call.pc = "parsed" =>
    LET value == SubSeq(call.header, RunEnd(call.header, 2, Whitespace),
                        Len(call.header))
    IN /\ (KeyThenValue(call.header, "Location:", value) /\ WellFormed(value))
            => call.location = value
       /\ (KeyThenValue(call.header, "Page:", value) /\ WellFormed(value)
           /\ \A k \in 1..Len(value) : value[k] # "-")
            => call.location = value
       /\ (/\ Len(call.header) >= 3
           /\ call.header[1] = "Yellow"
           /\ call.header[2] = " "
           /\ call.header[3] = "highlight")
            => call.color = <<"Yellow">>
       /\ (\A k \in 1..Len(call.header) :
             call.header[k] \notin {"Location:", "Page:"})
            => call.location = Null
       /\ (\A k \in 1..Len(call.header) : call.header[k] # "highlight")
            => call.color = Null

\* C23: the location of a highlight is null or a digit group or range of
\* the form ^\d+(,\d+)*(-\d+(,\d+)*)?$, whatever the header.
C23_LocationWellFormed ==
  call.pc = "parsed" => (call.location = Null \/ WellFormed(call.location))

\* Every book of the list holds at least one highlight.
AllWithHighlights(books) == \A k \in 1..Len(books) : books[k].hl > 0

\* C25: every book a strategy appends or returns holds at least one
\* highlight, and no request is made to the Lektr API for a book without
\* highlights.
C25_NoEmptyBookSubmitted ==
  \A r \in Runs :
    /\ AllWithHighlights(run[r].allBooks)
    /\ AllWithHighlights(run[r].contentScriptResult.books)
    /\ AllWithHighlights(run[r].books)
    /\ run[r].pc = "submit" =>
         \A resp \in UniformAnswers(run[r].books) :
           LET requests == SubmitLoop(run[r].books, resp,
                                      Len(run[r].books)).requests
           IN \A k \in 1..Len(requests) :
                \E j \in 1..Len(run[r].books) :
                  /\ run[r].books[j].asin = requests[k]
                  /\ run[r].books[j].hl > 0

\* C25 witness: the book of the legacy strategy is about to be submitted
\* in one run while the other run has made its requests to the Lektr API.
C25_Witness ==
  /\ run["manual"].pc = "submit"
  /\ Legacy \in run["manual"].gave
  /\ Len(run["manual"].books) = 1
  /\ run["scheduled"].pc = "success_clear"
  /\ run["scheduled"].posted

\* The books whose submission succeeded.
Succeeded(books, resp) ==
  {k \in 1..Len(books) : books[k].hl > 0 /\ resp[k].outcome = "ok"}

RECURSIVE SumImported(_, _)
\* The sum of the imported counts reported for the books of the set.
SumImported(set, resp) ==
  IF set = {} THEN 0
  ELSE LET k == CHOOSE j \in set : TRUE
       IN resp[k].imported + SumImported(set \ {k}, resp)

RECURSIVE HlOf(_, _)
\* The number of highlights the books of the set hold.
HlOf(set, books) ==
  IF set = {} THEN 0
  ELSE LET k == CHOOSE j \in set : TRUE
       IN books[k].hl + HlOf(set \ {k}, books)

\* Whatever the answers of the Lektr API, a request is made for every book
\* and the counters are those of the books whose submission succeeded.
SumsOutcomes(books) ==
  \A resp \in SubmitAnswers(books) :
    LET result == SubmitLoop(books, resp, Len(books))
    IN /\ result.requests = Asins(books)
       /\ result.booksProcessed = Cardinality(Succeeded(books, resp))
       /\ result.highlightsImported = SumImported(Succeeded(books, resp), resp)

C27_LegacySingleBook ==
  call.pc = "returned" =>
    LET listed == {k \in 1..Len(call.source) : call.source[k] # ""}
    IN /\ Len(call.result) <= 1
       /\ call.hl = 0 => call.result = <<>>
       /\ call.hl > 0 =>
            /\ Len(call.result) = 1
            /\ call.result[1].highlights = call.hl
            /\ listed # {} =>
                 LET first == CHOOSE k \in listed : \A j \in listed : k <= j
                 IN /\ call.result[1].asin = call.source[first]
                    /\ call.result[1].title = <<"title", first>>
                    /\ call.result[1].author = <<"author", first>>
            /\ listed = {} =>
                 /\ call.result[1].asin \in {"", call.panel.asin}
                 /\ call.result[1].asin = "" <=> call.panel.asin = "absent"
                 /\ call.result[1].title \in {"Unknown Title", call.panel.title}
                 /\ call.result[1].author \in {"null", call.panel.author}
                 /\ call.result[1].author = "null" <=>
                      call.panel.author = "absent"

\* C27 witness: the page lists two books after an element without asin and
\* has highlights; the book returned is the first of the two.
C27_Witness ==
  /\ call.pc = "returned"
  /\ call.source = <<"", "B2", "B1">>
  /\ Len(call.result) = 1
  /\ call.result[1].asin = "B2"

\* C28: in a loop over the books at most one per-book operation (request,
\* activation with its settle wait, submission) is in flight, and the
\* operation of a book is started only when the turns of all the books
\* before it are over.
C28_BooksOneByOne ==
  /\ Cardinality(call.inFlight) <= 1
  /\ \A book \in 1..Len(call.started) - 1 : book \in call.finished
  /\ call.inFlight # {} => call.inFlight = {Len(call.started)}
  /\ call.pc = "returned" =>
       call.inFlight = {} /\ call.finished = 1..call.bookList

\* C28 witness: the second book's settle wait is in flight, after a retry,
\* the first book's turn being over.
C28_Witness ==
  /\ call.loop = "syncAllBooks"
  /\ call.inFlight = {2}
  /\ call.retried
  /\ 1 \in call.finished

\* C29: in the Per-ASIN fetch loops a delay has run between every two
\* consecutive per-book requests, whatever the earlier request came to.
C29_DelayBetweenRequests ==
  call.loop \in FetchLoops =>
    \A k \in 1..Len(call.gaps) : call.gaps[k]

\* C30: checkLoginStatus returns false when the response was redirected to
\* a url containing 'signin', response.ok for every other response, and
\* false, without throwing, when the request fails.
C30_LoginStatusTable ==
  /\ call.pc = "returned" =>
       /\ ~call.threw
       /\ (call.request = "answered" /\ call.response.redirected
           /\ call.response.signin) => call.value = FALSE
       /\ (call.request = "answered"
           /\ ~(call.response.redirected /\ call.response.signin))
            => call.value = call.response.ok
       /\ call.request = "fails" => call.value = FALSE
  /\ call.threw => call.storageRead = "rejects"

\* C30 witness: the request failed and false was returned.
C30_Witness ==
  /\ call.pc = "returned"
  /\ call.request = "fails"
  /\ call.value = FALSE
  /\ ~call.threw

\* C31: getPreferredDomain gives the stored amazonDomain when one is stored
\* and 'read.amazon.com' when none is, and all the requests of one call of a
\* fetch strategy go to the domain so obtained, that is to one domain.
C31_RequestsTargetPreferredDomain ==
  /\ \A amazonDomain \in Domains :
       getPreferredDomain(amazonDomain) = amazonDomain
  /\ getPreferredDomain(NoDomain) = "read.amazon.com"
  /\ \A k \in 1..Len(call.requests) : call.requests[k] = call.requests[1]

\* C32: every SYNC_ALL_BOOKS message handled by the Kindle content script is
\* eventually answered, with exactly one response, which is a result with
\* success and books or success = false with an error: whether the scroll
\* container is missing, the sidebar empty, the settle waits time out, an
\* exception is thrown or the sync is cancelled.
C32_AlwaysAnsweredOnce ==
  /\ <>(call.pc = "answered")
  /\ [](call.responses <= 1)
  /\ [](call.pc = "answered" =>
          /\ call.responses = 1
          /\ \/ call.response.success
             \/ call.response.error # "none" /\ call.response.books = <<>>)

\* An answer on a page without scroll container, after a settle wait timed
\* out for an earlier book and the user cancelled with one book collected.
C32_Witness ==
  /\ call.pc = "answered"
  /\ call.responses = 1
  /\ ~call.container
  /\ call.dom > 3
  /\ Len(call.allBooks) = 1
  /\ call.response.error = "Sync cancelled by user"
\* C33: in the Live-DOM strategy the highlights stored in the Book record of
\* book i are those rendered for book i, never those rendered for a book
\* selected earlier.
C33_HighlightsOfOwnBook ==
  \A k \in 1..Len(call.allBooks) :
    call.allBooks[k].of = call.allBooks[k].asin

\* A run is in progress: it has written isSyncing = true (line 806) and has
\* not yet written isSyncing = false itself.
InProgress(r) == Active(r) /\ run[r].setTrue = 1 /\ run[r].clears = 0

\* C34: the stored isSyncing flag is true in every state in which a run of
\* syncKindleLibrary is in progress, whatever the popup does meanwhile: a
\* Stop click does not make it false while the run is still executing.
C34_FlagTrueWhileInProgress ==
  \A r \in Runs : InProgress(r) => isSyncing

\* C35: a stop that arrives during the Live-DOM phase of a manual run, before
\* the last per-book cancellation check, makes that run end Cancelled:
\* whether the tab is still loading, SYNC_ALL_BOOKS was not yet received, or
\* the flag is reset by SYNC_ALL_BOOKS; a stop received only while no run
\* was active does not cancel the run started afterwards.
C35_StopCancelsLiveDomRun ==
  Returned("manual") =>
    /\ call.stopped => run["manual"].result.error = "Sync cancelled"
    /\ call.early /\ ~call.stopped =>
         run["manual"].result.error # "Sync cancelled"

\* C36: syncKindleLibrary writes lastSyncTime only when the run ends as
\* success, with counts or with no highlights: every write is the last step
\* of a run that returns success, and a run that ends cancelled, with
\* LOGIN_REQUIRED or with another error has left lastSyncTime as it was.
C36_LastSyncTimeOnlyOnSuccess ==
  [][/\ lastSyncTime' # lastSyncTime =>
          \E r \in Runs : /\ run[r].pc \in {"empty_clear", "success_clear"}
                          /\ run'[r].pc = "done"
                          /\ run'[r].result.success
                          /\ run'[r].result.error = "none"
     /\ \A r \in Runs :
          (Active(r) /\ ~Active(r)' /\ ~run'[r].result.success) =>
             lastSyncTime' = lastSyncTime]_vars

\* The manual run has ended cancelled and the scheduled one as success: one
\* write.
C36_Witness ==
  /\ run["manual"].pc = "done"
  /\ run["manual"].result.error = "Sync cancelled"
  /\ run["scheduled"].pc = "done"
  /\ run["scheduled"].result.success
  /\ lastSyncTime = 1

\* C37: syncViaContentScript never throws; it sends SYNC_ALL_BOOKS to the
\* tabs one at a time in their order and returns the books of the first tab
\* that answers with success, sending nothing to later tabs; when no tab
\* exists after the create attempt, or every tab fails to answer or answers
\* with an error, it returns null, which the orchestrator treats as an empty
\* Live-DOM result: no books, not cancelled, the fetch fallback next.
C37_FirstAnsweringTabOrNull ==
  /\ (\/ call.rejects = "tabs.query"
      \/ call.rejects = "tabs.create" /\ Len(call.found) = 0
      \/ call.rejects = "tabs.reload" /\ Len(call.found) > 0
           /\ call.found[1] # "no id") =>
       /\ call.pc \in {"returned", "orchestrated"} => call.value.null
       /\ call.sent = <<>>
  /\ \A j \in 1..Len(call.sent) :
       /\ call.tabs[call.sent[j]] # "no id"
       /\ j > 1 => call.sent[j - 1] < call.sent[j]
  /\ call.pc \in {"returned", "orchestrated"} =>
       /\ ~call.value.null =>
            /\ call.value.tab = call.sent[Len(call.sent)]
            /\ call.tabs[call.value.tab] \in {"success", "cancelled"}
            /\ \A j \in 1..(Len(call.sent) - 1) :
                 call.tabs[call.sent[j]] \in {"error", "rejects"}
       /\ (\A j \in 1..Len(call.tabs) :
             call.tabs[j] \in {"error", "rejects", "no id"}) =>
            call.value.null
  /\ call.pc = "orchestrated" /\ call.value.null =>
       call.books = "empty" /\ ~call.wasCancelled /\ call.fallBack

\* The first tab did not answer, the second one answered with success and
\* its books were taken.
C37_Witness ==
  /\ call.pc = "orchestrated"
  /\ call.sent = <<1, 2>>
  /\ call.tabs = <<"rejects", "success">>
  /\ ~call.value.null
  /\ call.books = "of tab"

\* C38: for the same page content the three extractors give the same
\* sequence of highlights, each with the same content, note, location and
\* color: whichever extractor has run, its result is also that of the two
\* others.
C38_ExtractorsAgree ==
  call.pc = "extracted" =>
    /\ call.highlights = extractCurrentHighlights(call.blocks)
    /\ call.highlights = extractHighlightsFromHtml(call.blocks)
    /\ call.highlights = extractHighlightsFromDOM(call.blocks)

\* C39: once all the calls of updateSyncAlarm have completed, the
\* 'kindleSync' alarm exists if and only if the interval of the last update
\* is greater than 0, and its period is that interval; also when two
\* updates are processed concurrently.
C39_AlarmFollowsLastUpdate ==
  (/\ call.calls # <<>>
   /\ \A k \in 1..Len(call.calls) : call.calls[k].pc = "done") =>
    LET last == call.calls[Len(call.calls)].intervalMinutes
    IN /\ (call.alarm # NoAlarm) <=> (last > 0)
       /\ call.alarm # NoAlarm => call.alarm = last

\* C40: in the web-highlighter content script at most one toolbar is mounted
\* at any time, whatever the order of the selectionchange, scroll and resize
\* events, also when two calls of handleSelection overlap while
\* createShadowRootUi is pending; and with an empty selection and no call
\* pending, a mounted toolbar is the one ui refers to, which the next event
\* removes.
C40_AtMostOneToolbar ==
  /\ Cardinality(call.mounted) <= 1
  /\ call.mounted \subseteq {call.ui}

====
